---------------------------- MODULE Spec2Model ----------------------------
(***************************************************************************)
(* A model of layoutparser/elements.py: the coordinate elements Interval,  *)
(* Rectangle and Quadrilateral, the geometry kernel they share, the        *)
(* TextBlock that wraps one of them, and the Layout list that broadcasts   *)
(* over its members.                                                       *)
(*                                                                         *)
(* Values.  An element is a record whose cls field names its class.        *)
(* Coordinates are integers.  A point is <<x, y>>; a point produced by the *)
(* perspective kernel is <<X, Y, W>> (homogeneous, the point X/W, Y/W) when*)
(* it is not integral.  A value that is not an element is wrapped so that  *)
(* every result is a record: Bool(b) for a boolean, Err(kind) for a raised *)
(* exception.                                                              *)
(*                                                                         *)
(* Effects.  The only statement of the file that writes a field of an      *)
(* existing object is the assignment in BaseLayoutElement.set.  set, and   *)
(* every method that can reach it, is modelled as returning an effect      *)
(* [ret, recv, oth]: the value returned, and the receiver and the `other`  *)
(* argument as the call leaves them.                                       *)
(***************************************************************************)
EXTENDS Integers, Sequences, FiniteSets, TLC

VARIABLES self, other, out, op, args, argsort_tie, layout, depth

vars == <<self, other, out, op, args, argsort_tie, layout, depth>>

-----------------------------------------------------------------------------
(* Bounds of the model *)

\* coordinates of the enumerated elements range over -1 .. MaxCoord
MaxCoord == 1
\* paddings, soft margins, shift distances, scale factors: -MaxPad .. MaxPad
MaxPad == 1
\* longest Layout enumerated
MaxLen == 2
\* longest chain of calls x = x.op(...) followed from one constructed element
MaxDepth == 2

Coords == (0 - 1)..MaxCoord
Pads == (0 - MaxPad)..MaxPad
Axes == {"x", "y"}

-----------------------------------------------------------------------------
(* Plain values *)

Bool(b) == [cls |-> "bool", val |-> b]
Err(kind) == [cls |-> "Error", kind |-> kind]
IsErr(v) == v.cls = "Error"
NoValue == [cls |-> "None"]

\* Python's None for Quadrilateral._height / _width: <<>>; a number n: <<n>>
None == <<>>
Some(n) == <<n>>

Eff(ret, recv, oth) == [ret |-> ret, recv |-> recv, oth |-> oth]

max(a, b) == IF a >= b THEN a ELSE b
min(a, b) == IF a <= b THEN a ELSE b
abs(a) == IF a >= 0 THEN a ELSE 0 - a

RECURSIVE gcd(_, _)
gcd(a, b) == IF b = 0 THEN abs(a) ELSE gcd(b, a % abs(b))

Max4(s) == max(max(s[1], s[2]), max(s[3], s[4]))
Min4(s) == min(min(s[1], s[2]), min(s[3], s[4]))

\* np.array: an array is built once, entry by entry
array3(v) == <<v[1], v[2], v[3]>>
array4(v) == <<v[1], v[2], v[3], v[4]>>
array3x3(m) ==
    << <<m[1][1], m[1][2], m[1][3]>>, <<m[2][1], m[2][2], m[2][3]>>,
       <<m[3][1], m[3][2], m[3][3]>> >>

-----------------------------------------------------------------------------
(* Geometry kernel *)

\* the two columns of the point array exchanged
cvt_coordinates_to_points_transposed(coords) ==
    << <<coords[2], coords[1]>>, <<coords[2], coords[3]>>,
       <<coords[4], coords[3]>>, <<coords[4], coords[1]>> >>

\* top left, top right, bottom right, bottom left
_cvt_coordinates_to_points(coords) ==
    << <<coords[1], coords[2]>>, <<coords[3], coords[2]>>,
       <<coords[3], coords[4]>>, <<coords[1], coords[4]>> >>

_cvt_points_to_coordinates(points) ==
    LET xs == array4([i \in 1..4 |-> points[i][1]])
        ys == array4([i \in 1..4 |-> points[i][2]])
    IN  <<Min4(xs), Min4(ys), Max4(xs), Max4(ys)>>

det2(e1, e2) == e1[1] * e2[2] - e1[2] * e2[1]

\* vertice is <<X, Y, D>>, the point (X/D, Y/D) with D > 0 (a centre is a mean,
\* so it need not be integral).  The polygon is shifted to put the vertice at the
\* origin; scaling every shifted point by D leaves the sign of each determinant.
\* The determinants are taken exactly; np.linalg.det computes them in floating
\* point, which is exact in sign for the shifted corners of axis-aligned edges.
_vertice_in_polygon(vertice, polygon_points) ==
    LET d == vertice[3]
        points == array4([i \in 1..4 |-> <<d * polygon_points[i][1] - vertice[1],
                                     d * polygon_points[i][2] - vertice[2]>>])
        edges == points \o <<points[1]>>
    IN  \A i \in 1..4 : det2(edges[i], edges[i + 1]) >= 0

\* the two sums of products taken without np.roll
polygon_area_unrolled(xs, ys) ==
    LET dot(a, b) == a[1] * b[1] + a[2] * b[2] + a[3] * b[3] + a[4] * b[4]
    IN  abs(dot(xs, ys) - dot(ys, xs))

\* the Shoelace sum, doubled: the value returned is 0.5 * this
_polygon_area_doubled(xs, ys) ==
    LET roll(v) == <<v[4], v[1], v[2], v[3]>>
        dot(a, b) == a[1] * b[1] + a[2] * b[2] + a[3] * b[3] + a[4] * b[4]
    IN  abs(dot(xs, roll(ys)) - dot(ys, roll(xs)))

-----------------------------------------------------------------------------
(* BaseLayoutElement *)

\* set(inplace, kwargs...): kwargs is a record.  A Quadrilateral keeps points,
\* height and width in _points, _height and _width; the record fields carry the
\* public names, which is what set accepts.
set_always_inplace(obj, inplace, kwargs) ==
    LET new == [k \in DOMAIN obj |-> IF k \in DOMAIN kwargs THEN kwargs[k] ELSE obj[k]]
    IN  IF ~(DOMAIN kwargs \subseteq DOMAIN obj \ {"cls"})
        THEN Eff(Err("ValueError"), obj, NoValue)
        ELSE Eff(new, new, NoValue)

set(obj, inplace, kwargs) ==
    LET new == [k \in DOMAIN obj |-> IF k \in DOMAIN kwargs THEN kwargs[k] ELSE obj[k]]
    IN  IF ~(DOMAIN kwargs \subseteq DOMAIN obj \ {"cls"})
        THEN Eff(Err("ValueError"), obj, NoValue)
        ELSE Eff(new, IF inplace THEN new ELSE obj, NoValue)

\* copy(self): a new object with the same fields
copy(obj) == obj

-----------------------------------------------------------------------------
(* Interval *)

\* the object as stored, no checks (what set writes)
IntervalRec(start, end, axis, canvas_height, canvas_width) ==
    [cls |-> "Interval", start |-> start, end |-> end, axis |-> axis,
     canvas_height |-> canvas_height, canvas_width |-> canvas_width]

Interval(start, end, axis, canvas_height, canvas_width) ==
    IF ~(start <= end) THEN Err("AssertionError")
    ELSE IF axis \notin Axes THEN Err("AssertionError")
    ELSE IntervalRec(start, end, axis, canvas_height, canvas_width)

Interval_height(s) == IF s.axis = "x" THEN s.canvas_height ELSE s.end - s.start

Interval_width(s) == IF s.axis = "y" THEN s.canvas_width ELSE s.end - s.start

Interval_coordinates(s) ==
    IF s.axis = "x" THEN <<s.start, 0, s.end, s.canvas_height>>
    ELSE <<0, s.start, s.canvas_width, s.end>>

Interval_points(s) == _cvt_coordinates_to_points(Interval_coordinates(s))

\* (start + end) / 2. as <<X, D>>, the number X/D
Interval_center(s) == <<s.start + s.end, 2>>

Interval_area(s) == Interval_height(s) * Interval_width(s)

-----------------------------------------------------------------------------
(* Rectangle *)

Rectangle(x_1, y_1, x_2, y_2) ==
    [cls |-> "Rectangle", x_1 |-> x_1, y_1 |-> y_1, x_2 |-> x_2, y_2 |-> y_2]

Rectangle_height(s) == s.y_2 - s.y_1

Rectangle_width(s) == s.x_2 - s.x_1

Rectangle_coordinates(s) == <<s.x_1, s.y_1, s.x_2, s.y_2>>

Rectangle_points(s) == _cvt_coordinates_to_points(Rectangle_coordinates(s))

\* ((x_1 + x_2)/2., (y_1 + y_2)/2.) as the vertice <<X, Y, D>>
Rectangle_center(s) == <<s.x_1 + s.x_2, s.y_1 + s.y_2, 2>>

Rectangle_area(s) == Rectangle_width(s) * Rectangle_height(s)

-----------------------------------------------------------------------------
(* Quadrilateral *)

Quadrilateral(points, height, width) ==
    [cls |-> "Quadrilateral", points |-> points, height |-> height, width |-> width]

Quadrilateral_points(s) == s.points

Quadrilateral_height(s) ==
    IF s.height # None THEN s.height[1]
    ELSE LET ys == array4([i \in 1..4 |-> s.points[i][2]]) IN Max4(ys) - Min4(ys)

Quadrilateral_width(s) ==
    IF s.width # None THEN s.width[1]
    ELSE LET xs == array4([i \in 1..4 |-> s.points[i][1]]) IN Max4(xs) - Min4(xs)

Quadrilateral_coordinates(s) == _cvt_points_to_coordinates(s.points)

\* points.mean(axis=0) as the vertice <<X, Y, D>>
Quadrilateral_center(s) ==
    <<s.points[1][1] + s.points[2][1] + s.points[3][1] + s.points[4][1],
      s.points[1][2] + s.points[2][2] + s.points[3][2] + s.points[4][2], 4>>

\* twice the area
Quadrilateral_area_doubled(s) ==
    _polygon_area_doubled(array4([i \in 1..4 |-> s.points[i][1]]),
                          array4([i \in 1..4 |-> s.points[i][2]]))

\* points.argsort(axis=0).argsort(axis=0): the rank 0..3 of each point's x among
\* the x's, and of its y among the y's.  numpy's default sort is not stable, so the
\* order it gives equal keys is the build's: argsort_tie is "index" when equal keys
\* keep their index order and "reverse" when they come out in the opposite order.
argsort_argsort(points) ==
    LET before(j, i) == IF argsort_tie = "index" THEN j < i ELSE j > i
        rank(i, c) == Cardinality({j \in 1..4 :
                          \/ points[j][c] < points[i][c]
                          \/ points[j][c] = points[i][c] /\ before(j, i)})
    IN  array4([i \in 1..4 |-> <<rank(i, 1), rank(i, 2)>>])

\* x_map, y_map: functions on 0..3
map_to_points_ordering(s, x_map, y_map) ==
    LET points_ordering == argsort_argsort(s.points)
    IN  array4([i \in 1..4 |-> <<x_map[points_ordering[i][1]],
                                   y_map[points_ordering[i][2]]>>])

Quadrilateral_mapped_rectangle_points(s) ==
    LET w == Quadrilateral_width(s)
        h == Quadrilateral_height(s)
        x_map == [k \in 0..3 |-> IF k <= 1 THEN 0 ELSE w]
        y_map == [k \in 0..3 |-> IF k <= 1 THEN 0 ELSE h]
    IN  map_to_points_ordering(s, x_map, y_map)

-----------------------------------------------------------------------------
(* Perspective kernel.  A homography is a 3x3 matrix up to a non-zero scalar:  *)
(* _perspective_transformation divides by the last homogeneous component, so   *)
(* M and c*M move every point alike.  The matrices are kept as integer         *)
(* matrices, reduced by the gcd of their entries; arithmetic is exact, so      *)
(* "equal within floating tolerance" is equality here.                         *)

Matrix(m) == [cls |-> "Matrix", m |-> m]
Ndarray(points) == [cls |-> "ndarray", points |-> points]

Homog(p) == IF Len(p) = 2 THEN <<p[1], p[2], 1>> ELSE p

\* the determinant of the matrix whose columns are a, b, c
det3cols(a, b, c) ==
    a[1] * (b[2] * c[3] - b[3] * c[2])
    - b[1] * (a[2] * c[3] - a[3] * c[2])
    + c[1] * (a[2] * b[3] - a[3] * b[2])

det3(m) ==
    det3cols(<<m[1][1], m[2][1], m[3][1]>>, <<m[1][2], m[2][2], m[3][2]>>,
             <<m[1][3], m[2][3], m[3][3]>>)

matmul(a, b) ==
    array3x3([i \in 1..3 |-> [j \in 1..3 |->
                a[i][1] * b[1][j] + a[i][2] * b[2][j] + a[i][3] * b[3][j]]])

matvec(m, v) == array3([i \in 1..3 |-> m[i][1] * v[1] + m[i][2] * v[2] + m[i][3] * v[3]])

\* the adjugate: det3(m) * inverse of m
adjugate(m) ==
    LET n(k) == (k % 3) + 1
    IN  array3x3([i \in 1..3 |-> [j \in 1..3 |->
            m[n(j)][n(i)] * m[n(n(j))][n(n(i))] - m[n(j)][n(n(i))] * m[n(n(j))][n(i)]]])

\* m divided by the gcd of its entries, the sign making m[3][3] >= 0
reduce3(m) ==
    LET g == gcd(gcd(gcd(m[1][1], m[1][2]), gcd(m[1][3], m[2][1])),
                 gcd(gcd(gcd(m[2][2], m[2][3]), gcd(m[3][1], m[3][2])), m[3][3]))
        d == IF g = 0 THEN 1 ELSE g
        sg == IF m[3][3] < 0 THEN 0 - 1 ELSE 1
    IN  array3x3([i \in 1..3 |-> [j \in 1..3 |-> sg * (m[i][j] \div d)]])

\* the matrix taking (1,0,0), (0,1,0), (0,0,1), (1,1,1) to the four points
basis_matrix(pts) ==
    LET p == array4([i \in 1..4 |-> Homog(pts[i])])
        l == <<det3cols(p[4], p[2], p[3]), det3cols(p[1], p[4], p[3]),
               det3cols(p[1], p[2], p[4])>>
    IN  array3x3([r \in 1..3 |-> [c \in 1..3 |-> l[c] * p[c][r]]])

\* no three of the four points on one line
general_position(pts) ==
    LET p == array4([i \in 1..4 |-> Homog(pts[i])])
    IN  /\ det3cols(p[1], p[2], p[3]) # 0
        /\ det3cols(p[4], p[2], p[3]) # 0
        /\ det3cols(p[1], p[4], p[3]) # 0
        /\ det3cols(p[1], p[2], p[4]) # 0

\* cv2.getPerspectiveTransform(src, dst): the homography with M[2][2] = 1 taking
\* src[i] to dst[i].  It exists and is invertible when both point sets are in
\* general position; otherwise the linear system cv2 solves is singular and what
\* it returns is not specified: the model marks that case as an error.
normalized(h) == IF h[3][3] = 0 THEN Err("DegenerateTransform") ELSE Matrix(h)

_getPerspectiveTransform(src, dst) ==
    IF ~(general_position(src) /\ general_position(dst)) THEN Err("DegenerateTransform")
    ELSE normalized(reduce3(matmul(reduce3(basis_matrix(dst)),
                                   reduce3(adjugate(reduce3(basis_matrix(src)))))))

\* one point after the division by the homogeneous component: <<x, y>> when the
\* quotient is integral, the reduced <<X, Y, W>> with W > 0 when it is not, and
\* <<0, 0, 0>> for a division by zero (numpy yields inf or nan, and no error)
dehomogenize(v) ==
    IF v[3] = 0 THEN <<0, 0, 0>>
    ELSE LET sg == IF v[3] < 0 THEN 0 - 1 ELSE 1
             g == gcd(gcd(v[1], v[2]), v[3])
             x == (sg * v[1]) \div g
             y == (sg * v[2]) \div g
             w == (sg * v[3]) \div g
         IN  IF w = 1 THEN <<x, y>> ELSE <<x, y, w>>

IsFinitePoint(p) == Len(p) = 2 \/ p[3] # 0

perspective_transformation_never_inverts(M, points, is_inv) ==
    Ndarray(array4([i \in 1..4 |-> IF IsFinitePoint(points[i])
                             THEN dehomogenize(matvec(M, Homog(points[i])))
                             ELSE <<0, 0, 0>>]))

\* np.linalg.inv(M) is adjugate(M) / det3(M); the scalar cancels in the division
_perspective_transformation(M, points, is_inv) ==
    IF is_inv /\ det3(M) = 0 THEN Err("LinAlgError")
    ELSE LET m == IF is_inv THEN reduce3(adjugate(M)) ELSE M
         IN  Ndarray(array4([i \in 1..4 |-> IF IsFinitePoint(points[i])
                                      THEN dehomogenize(matvec(m, Homog(points[i])))
                                      ELSE <<0, 0, 0>>]))

Quadrilateral_perspective_matrix(s) ==
    _getPerspectiveTransform(s.points, Quadrilateral_mapped_rectangle_points(s))

-----------------------------------------------------------------------------
(* Properties and conversions, by class *)

IsElement(e) == e.cls \in {"Interval", "Rectangle", "Quadrilateral"}

height(e) ==
    CASE e.cls = "Interval" -> Interval_height(e)
      [] e.cls = "Rectangle" -> Rectangle_height(e)
      [] e.cls = "Quadrilateral" -> Quadrilateral_height(e)

width(e) ==
    CASE e.cls = "Interval" -> Interval_width(e)
      [] e.cls = "Rectangle" -> Rectangle_width(e)
      [] e.cls = "Quadrilateral" -> Quadrilateral_width(e)

coordinates(e) ==
    CASE e.cls = "Interval" -> Interval_coordinates(e)
      [] e.cls = "Rectangle" -> Rectangle_coordinates(e)
      [] e.cls = "Quadrilateral" -> Quadrilateral_coordinates(e)

points(e) ==
    CASE e.cls = "Interval" -> Interval_points(e)
      [] e.cls = "Rectangle" -> Rectangle_points(e)
      [] e.cls = "Quadrilateral" -> Quadrilateral_points(e)

\* a number that is a multiple of one half, n / 2
Halves(n) == [cls |-> "float", twice |-> n]

area(e) ==
    CASE e.cls = "Interval" -> Halves(2 * Interval_area(e))
      [] e.cls = "Rectangle" -> Halves(2 * Rectangle_area(e))
      [] e.cls = "Quadrilateral" -> Halves(Quadrilateral_area_doubled(e))

Interval_to_rectangle(s) ==
    LET c == Interval_coordinates(s) IN Rectangle(c[1], c[2], c[3], c[4])

Interval_to_quadrilateral(s) == Quadrilateral(Interval_points(s), None, None)

Rectangle_to_interval(s, axis) ==
    IF axis = "x" THEN Interval(s.x_1, s.x_2, axis, 0, 0)
    ELSE Interval(s.y_1, s.y_2, axis, 0, 0)

Rectangle_to_quadrilateral(s) == Quadrilateral(Rectangle_points(s), None, None)

Quadrilateral_to_interval(s, axis) ==
    LET c == Quadrilateral_coordinates(s)
    IN  IF axis = "x" THEN Interval(c[1], c[3], axis, 0, 0)
        ELSE Interval(c[2], c[4], axis, 0, 0)

Quadrilateral_to_rectangle(s) ==
    LET c == Quadrilateral_coordinates(s) IN Rectangle(c[1], c[2], c[3], c[4])

\* BaseLayoutElement.__eq__, and Quadrilateral.__eq__ (np.isclose on the points
\* alone; a nan or inf point is close to no finite point)
eq(a, b) ==
    IF a.cls # b.cls THEN FALSE
    ELSE IF a.cls = "Quadrilateral"
         THEN /\ \A i \in 1..4 : IsFinitePoint(a.points[i]) /\ IsFinitePoint(b.points[i])
              /\ a.points = b.points
         ELSE a = b

-----------------------------------------------------------------------------
(* from_series.  A row is a record of its fields, each None (the field is      *)
(* missing or NaN, and series.dropna() removes it, so that series.get gives    *)
(* None) or Some(v).                                                           *)

Series(x_1, y_1, x_2, y_2, h, w) ==
    [cls |-> "Series", x_1 |-> x_1, y_1 |-> y_1, x_2 |-> x_2, y_2 |-> y_2,
     height |-> h, width |-> w]

\* the truth value Python gives what series.get returned: None and 0 are false
truth(v) == v # None /\ v[1] # 0

\* v or 0
or_zero(v) == IF truth(v) THEN v[1] ELSE 0

\* cls(start, end, axis=..., canvas_height=..., canvas_width=...) with start, end
\* as series.get returned them: the assertion start <= end compares them, and
\* Python raises TypeError when one of the two is None
Interval_of_fields(start, end, axis, canvas_height, canvas_width) ==
    IF start = None \/ end = None THEN Err("TypeError")
    ELSE Interval(start[1], end[1], axis, canvas_height, canvas_width)

Interval_from_series(series) ==
    IF truth(series.x_1) /\ truth(series.x_2)
    THEN Interval_of_fields(series.x_1, series.x_2, "x",
                            or_zero(series.height), or_zero(series.width))
    ELSE Interval_of_fields(series.y_1, series.y_2, "y",
                            or_zero(series.height), or_zero(series.width))

-----------------------------------------------------------------------------
(* put_on_canvas, pad, shift, scale *)

\* canvas: a BaseCoordElement (the ndarray and PIL image canvases carry the same
\* two numbers and are not modelled apart)
\* the Interval returned with the canvas size it had
put_on_canvas_keeps_size(s, canvas) ==
    IF ~IsElement(canvas) THEN Eff(Err("NotImplementedError"), s, canvas)
    ELSE Eff(copy(s), s, canvas)

Interval_put_on_canvas(s, canvas) ==
    IF ~IsElement(canvas) THEN Eff(Err("NotImplementedError"), s, canvas)
    ELSE LET e == set(s, FALSE, [canvas_height |-> height(canvas),
                                 canvas_width |-> width(canvas)])
         IN  Eff(e.ret, e.recv, canvas)

\* the condition of warnings.warn in Interval.pad: a padding given for the other
\* axis.  A warning is printed and the call goes on.
Interval_pad_warns(s, left, right, top, bottom) ==
    IF s.axis = "x" THEN top # 0 \/ bottom # 0 ELSE left # 0 \/ right # 0

\* a padding for the other axis refused, and the end clamped as the start is
Interval_pad_strict(s, left, right, top, bottom, safe_mode) ==
    LET start0 == IF s.axis = "x" THEN s.start - left ELSE s.start - top
        end0 == IF s.axis = "x" THEN s.end + right ELSE s.end + bottom
    IN  IF Interval_pad_warns(s, left, right, top, bottom) THEN Eff(Err("ValueError"), s, NoValue)
        ELSE set(s, FALSE, [start |-> IF safe_mode THEN max(0, start0) ELSE start0,
                            end |-> IF safe_mode THEN max(0, end0) ELSE end0])

Interval_pad(s, left, right, top, bottom, safe_mode) ==
    LET start0 == IF s.axis = "x" THEN s.start - left ELSE s.start - top
        end == IF s.axis = "x" THEN s.end + right ELSE s.end + bottom
        start == IF safe_mode THEN max(0, start0) ELSE start0
    IN  set(s, FALSE, [start |-> start, end |-> end])

\* the clamp applied whatever safe_mode is
Rectangle_pad_always_safe(s, left, right, top, bottom, safe_mode) ==
    Eff(Rectangle(max(0, s.x_1 - left), max(0, s.y_1 - top), s.x_2 + right, s.y_2 + bottom),
        s, NoValue)

Rectangle_pad(s, left, right, top, bottom, safe_mode) ==
    LET x_1 == s.x_1 - left
        y_1 == s.y_1 - top
        x_2 == s.x_2 + right
        y_2 == s.y_2 + bottom
    IN  Eff(Rectangle(IF safe_mode THEN max(0, x_1) ELSE x_1,
                      IF safe_mode THEN max(0, y_1) ELSE y_1, x_2, y_2), s, NoValue)

\* the paddings given to the points in the order of the array, not of their ranks
Quadrilateral_pad_in_array_order(s, left, right, top, bottom, safe_mode) ==
    LET x_map == [k \in 0..3 |-> IF k <= 1 THEN 0 - left ELSE right]
        y_map == [k \in 0..3 |-> IF k <= 1 THEN 0 - top ELSE bottom]
        pts == array4([i \in 1..4 |-> <<s.points[i][1] + x_map[i - 1],
                                  s.points[i][2] + y_map[i - 1]>>])
        clamped == array4([i \in 1..4 |-> <<max(pts[i][1], 0), max(pts[i][2], 0)>>])
    IN  set(s, FALSE, [points |-> IF safe_mode THEN clamped ELSE pts])

Quadrilateral_pad(s, left, right, top, bottom, safe_mode) ==
    LET x_map == [k \in 0..3 |-> IF k <= 1 THEN 0 - left ELSE right]
        y_map == [k \in 0..3 |-> IF k <= 1 THEN 0 - top ELSE bottom]
        padding_mat == map_to_points_ordering(s, x_map, y_map)
        pts == array4([i \in 1..4 |-> <<s.points[i][1] + padding_mat[i][1],
                                  s.points[i][2] + padding_mat[i][2]>>])
        clamped == array4([i \in 1..4 |-> <<max(pts[i][1], 0), max(pts[i][2], 0)>>])
    IN  set(s, FALSE, [points |-> IF safe_mode THEN clamped ELSE pts])

pad(e, left, right, top, bottom, safe_mode) ==
    CASE e.cls = "Interval" -> Interval_pad(e, left, right, top, bottom, safe_mode)
      [] e.cls = "Rectangle" -> Rectangle_pad(e, left, right, top, bottom, safe_mode)
      [] e.cls = "Quadrilateral" -> Quadrilateral_pad(e, left, right, top, bottom, safe_mode)
      [] OTHER -> Eff(Err("AttributeError"), e, NoValue)

\* A shift distance or scale factor is [iterable |-> FALSE, v |-> <<d>>] for a
\* number d and [iterable |-> TRUE, v |-> <<dx, dy>>] for a list.
Scalar(d) == [iterable |-> FALSE, v |-> <<d>>]
Vector(v) == [iterable |-> TRUE, v |-> v]

Interval_shift(s, shift_distance) ==
    LET k == IF s.axis = "x" THEN 1 ELSE 2
    IN  IF shift_distance.iterable /\ Len(shift_distance.v) < k
        THEN Eff(Err("IndexError"), s, NoValue)
        ELSE LET d == IF shift_distance.iterable THEN shift_distance.v[k]
                      ELSE shift_distance.v[1]
             IN  set(s, FALSE, [start |-> s.start + d, end |-> s.end + d])

Interval_scale(s, scale_factor) ==
    LET k == IF s.axis = "x" THEN 1 ELSE 2
    IN  IF scale_factor.iterable /\ Len(scale_factor.v) < k
        THEN Eff(Err("IndexError"), s, NoValue)
        ELSE LET f == IF scale_factor.iterable THEN scale_factor.v[k]
                      ELSE scale_factor.v[1]
             IN  set(s, FALSE, [start |-> s.start * f, end |-> s.end * f])

Rectangle_shift(s, shift_distance) ==
    IF shift_distance.iterable /\ Len(shift_distance.v) # 2
    THEN Eff(Err("AssertionError"), s, NoValue)
    ELSE LET shift_x == shift_distance.v[1]
             shift_y == IF shift_distance.iterable THEN shift_distance.v[2]
                        ELSE shift_distance.v[1]
         IN  Eff(Rectangle(s.x_1 + shift_x, s.y_1 + shift_y,
                           s.x_2 + shift_x, s.y_2 + shift_y), s, NoValue)

Rectangle_scale(s, scale_factor) ==
    IF scale_factor.iterable /\ Len(scale_factor.v) # 2
    THEN Eff(Err("AssertionError"), s, NoValue)
    ELSE LET scale_x == scale_factor.v[1]
             scale_y == IF scale_factor.iterable THEN scale_factor.v[2]
                        ELSE scale_factor.v[1]
         IN  Eff(Rectangle(s.x_1 * scale_x, s.y_1 * scale_y,
                           s.x_2 * scale_x, s.y_2 * scale_y), s, NoValue)

Quadrilateral_shift(s, shift_distance) ==
    IF shift_distance.iterable /\ Len(shift_distance.v) # 2
    THEN Eff(Err("AssertionError"), s, NoValue)
    ELSE LET shift_mat == IF shift_distance.iterable THEN shift_distance.v
                          ELSE <<shift_distance.v[1], shift_distance.v[1]>>
         IN  set(s, FALSE, [points |-> array4([i \in 1..4 |->
                    <<s.points[i][1] + shift_mat[1], s.points[i][2] + shift_mat[2]>>])])

Quadrilateral_scale(s, scale_factor) ==
    IF scale_factor.iterable /\ Len(scale_factor.v) # 2
    THEN Eff(Err("AssertionError"), s, NoValue)
    ELSE LET scale_mat == IF scale_factor.iterable THEN scale_factor.v
                          ELSE <<scale_factor.v[1], scale_factor.v[1]>>
         IN  set(s, FALSE, [points |-> array4([i \in 1..4 |->
                    <<s.points[i][1] * scale_mat[1], s.points[i][2] * scale_mat[2]>>])])

shift(e, shift_distance) ==
    CASE e.cls = "Interval" -> Interval_shift(e, shift_distance)
      [] e.cls = "Rectangle" -> Rectangle_shift(e, shift_distance)
      [] e.cls = "Quadrilateral" -> Quadrilateral_shift(e, shift_distance)

scale(e, scale_factor) ==
    CASE e.cls = "Interval" -> Interval_scale(e, scale_factor)
      [] e.cls = "Rectangle" -> Rectangle_scale(e, scale_factor)
      [] e.cls = "Quadrilateral" -> Quadrilateral_scale(e, scale_factor)

-----------------------------------------------------------------------------
(* condition_on and relative_to.  sign is +1 for condition_on and -1 for      *)
(* relative_to where the two methods differ only in the sign of the offset.   *)

\* the Quadrilateral branch shared by Rectangle and Quadrilateral receivers:
\* the receiver's points through other's perspective matrix
\* self.__class__(transformed_points, height, width), unless the kernel raised
transformed(transformed_points, h, w) ==
    IF IsErr(transformed_points) THEN transformed_points
    ELSE Quadrilateral(transformed_points.points, Some(h), Some(w))

\* the points moved by M, other's perspective matrix, unless cv2 gave none
through_matrix(M, pts, h, w, is_inv) ==
    IF IsErr(M) THEN M
    ELSE transformed(_perspective_transformation(M.m, pts, is_inv), h, w)

through_perspective(pts, h, w, o, is_inv) ==
    through_matrix(Quadrilateral_perspective_matrix(o), pts, h, w, is_inv)

\* the offset added in both directions
Rectangle_translate_always_adds(s, o, sign) ==
    CASE o.cls = "Interval" ->
            LET dx == IF o.axis = "x" THEN o.start ELSE 0
                dy == IF o.axis = "x" THEN 0 ELSE o.start
            IN  Rectangle(s.x_1 + dx, s.y_1 + dy, s.x_2 + dx, s.y_2 + dy)
      [] o.cls = "Rectangle" ->
            Rectangle(s.x_1 + o.x_1, s.y_1 + o.y_1, s.x_2 + o.x_1, s.y_2 + o.y_1)

Rectangle_translate(s, o, sign) ==
    CASE o.cls = "Interval" ->
            LET dx == IF o.axis = "x" THEN o.start ELSE 0
                dy == IF o.axis = "x" THEN 0 ELSE o.start
            IN  Rectangle(s.x_1 + sign * dx, s.y_1 + sign * dy,
                          s.x_2 + sign * dx, s.y_2 + sign * dy)
      [] o.cls = "Rectangle" ->
            LET dx == Rectangle_coordinates(o)[1]
                dy == Rectangle_coordinates(o)[2]
            IN  Rectangle(s.x_1 + sign * dx, s.y_1 + sign * dy,
                          s.x_2 + sign * dx, s.y_2 + sign * dy)

Rectangle_condition_on(s, o) ==
    CASE o.cls \in {"Interval", "Rectangle"} -> Eff(Rectangle_translate(s, o, 1), s, o)
      [] o.cls = "Quadrilateral" ->
            Eff(through_perspective(Rectangle_points(s), Rectangle_height(s),
                                    Rectangle_width(s), o, TRUE), s, o)
      [] OTHER -> Eff(Err("Exception"), s, o)

\* an `other` of no supported class taken for the origin
Rectangle_relative_to_unchecked(s, o) ==
    CASE o.cls \in {"Interval", "Rectangle"} -> Eff(Rectangle_translate(s, o, 0 - 1), s, o)
      [] o.cls = "Quadrilateral" ->
            Eff(through_perspective(Rectangle_points(s), Rectangle_height(s),
                                    Rectangle_width(s), o, FALSE), s, o)
      [] OTHER -> Eff(copy(s), s, o)

Rectangle_relative_to(s, o) ==
    CASE o.cls \in {"Interval", "Rectangle"} -> Eff(Rectangle_translate(s, o, 0 - 1), s, o)
      [] o.cls = "Quadrilateral" ->
            Eff(through_perspective(Rectangle_points(s), Rectangle_height(s),
                                    Rectangle_width(s), o, FALSE), s, o)
      [] OTHER -> Eff(Err("Exception"), s, o)

Quadrilateral_translate(s, o, sign) ==
    CASE o.cls = "Interval" ->
            IF o.axis = "x" THEN Quadrilateral_shift(s, Vector(<<sign * o.start, 0>>))
            ELSE Quadrilateral_shift(s, Vector(<<0, sign * o.start>>))
      [] o.cls = "Rectangle" ->
            Quadrilateral_shift(s, Vector(<<sign * o.x_1, sign * o.y_1>>))

Quadrilateral_condition_on(s, o) ==
    CASE o.cls \in {"Interval", "Rectangle"} ->
            LET e == Quadrilateral_translate(s, o, 1) IN Eff(e.ret, e.recv, o)
      [] o.cls = "Quadrilateral" ->
            Eff(through_perspective(s.points, Quadrilateral_height(s),
                                    Quadrilateral_width(s), o, TRUE), s, o)
      [] OTHER -> Eff(Err("Exception"), s, o)

Quadrilateral_relative_to(s, o) ==
    CASE o.cls \in {"Interval", "Rectangle"} ->
            LET e == Quadrilateral_translate(s, o, 0 - 1) IN Eff(e.ret, e.recv, o)
      [] o.cls = "Quadrilateral" ->
            Eff(through_perspective(s.points, Quadrilateral_height(s),
                                    Quadrilateral_width(s), o, FALSE), s, o)
      [] OTHER -> Eff(Err("Exception"), s, o)

\* Interval against Interval: the canvas size is reset (the constructor's
\* defaults) when the axes agree, and the receiver is copied when they do not
\* the shift by other.start made whatever the two axes are
Interval_translate_across_axes(s, o, sign) ==
    Interval(s.start + sign * o.start, s.end + sign * o.start, s.axis, 0, 0)

Interval_translate(s, o, sign) ==
    IF o.axis = s.axis
    THEN Interval(s.start + sign * o.start, s.end + sign * o.start, s.axis, 0, 0)
    ELSE copy(s)

Interval_condition_on(s, o) ==
    CASE o.cls = "Interval" -> Eff(Interval_translate(s, o, 1), s, o)
      [] o.cls = "Rectangle" ->
            LET e == Interval_put_on_canvas(s, o)
            IN  Eff(Rectangle_condition_on(Interval_to_rectangle(e.ret), o).ret, e.recv, o)
      [] o.cls = "Quadrilateral" ->
            LET e == Interval_put_on_canvas(s, o)
            IN  Eff(Quadrilateral_condition_on(Interval_to_quadrilateral(e.ret), o).ret,
                    e.recv, o)
      [] OTHER -> Eff(Err("Exception"), s, o)

Interval_relative_to(s, o) ==
    CASE o.cls = "Interval" -> Eff(Interval_translate(s, o, 0 - 1), s, o)
      [] o.cls = "Rectangle" ->
            LET e == Interval_put_on_canvas(s, o)
            IN  Eff(Rectangle_relative_to(Interval_to_rectangle(e.ret), o).ret, e.recv, o)
      [] o.cls = "Quadrilateral" ->
            LET e == Interval_put_on_canvas(s, o)
            IN  Eff(Quadrilateral_relative_to(Interval_to_quadrilateral(e.ret), o).ret,
                    e.recv, o)
      [] OTHER -> Eff(Err("Exception"), s, o)

\* @support_textblock, which decorates condition_on, relative_to and is_in of the
\* three classes: a TextBlock given as `other` is replaced by its block
support_textblock(o) == IF o.cls = "TextBlock" THEN o.block ELSE o

\* the effect of the decorated call, e the effect of the call it wraps: `other`
\* itself is the wrapper, around its block as the call leaves it
decorated(o, e) ==
    IF o.cls = "TextBlock" THEN Eff(e.ret, e.recv, [o EXCEPT !.block = e.oth]) ELSE e

condition_on(e, o) ==
    decorated(o, CASE e.cls = "Interval" -> Interval_condition_on(e, support_textblock(o))
                   [] e.cls = "Rectangle" -> Rectangle_condition_on(e, support_textblock(o))
                   [] e.cls = "Quadrilateral" ->
                        Quadrilateral_condition_on(e, support_textblock(o)))

relative_to(e, o) ==
    decorated(o, CASE e.cls = "Interval" -> Interval_relative_to(e, support_textblock(o))
                   [] e.cls = "Rectangle" -> Rectangle_relative_to(e, support_textblock(o))
                   [] e.cls = "Quadrilateral" ->
                        Quadrilateral_relative_to(e, support_textblock(o)))

-----------------------------------------------------------------------------
(* TextBlock: a block (one of the three coordinate elements) and the content   *)
(* fields text, id, type, parent, next, score                                  *)

TextBlock(block, text, id, type, parent, next, score) ==
    IF ~IsElement(block) THEN Err("AssertionError")
    ELSE [cls |-> "TextBlock", block |-> block, text |-> text, id |-> id, type |-> type,
          parent |-> parent, next |-> next, score |-> score]

\* a TextBlock made of the block returned alone, the content fields at their defaults
mixin_textblock_meta_defaults(s, e) ==
    IF IsElement(e.ret)
    THEN Eff(TextBlock(e.ret, "", None, None, None, None, None),
             [s EXCEPT !.block = e.recv], e.oth)
    ELSE Eff(IF IsErr(e.ret) THEN e.ret ELSE NoValue, [s EXCEPT !.block = e.recv], e.oth)

\* @mixin_textblock_meta: e is the effect of the wrapped method, a call on
\* s.block.  A returned element becomes the block of a copy of s; an exception
\* passes through; with any other value the wrapper returns nothing (None).
mixin_textblock_meta(s, e) ==
    IF IsElement(e.ret)
    THEN Eff([copy(s) EXCEPT !.block = e.ret], [s EXCEPT !.block = e.recv], e.oth)
    ELSE Eff(IF IsErr(e.ret) THEN e.ret ELSE NoValue, [s EXCEPT !.block = e.recv], e.oth)

TextBlock_condition_on(s, o) == mixin_textblock_meta(s, condition_on(s.block, o))

TextBlock_relative_to(s, o) == mixin_textblock_meta(s, relative_to(s.block, o))

TextBlock_shift(s, shift_distance) == mixin_textblock_meta(s, shift(s.block, shift_distance))

TextBlock_pad(s, left, right, top, bottom, safe_mode) ==
    mixin_textblock_meta(s, pad(s.block, left, right, top, bottom, safe_mode))

TextBlock_scale(s, scale_factor) == mixin_textblock_meta(s, scale(s.block, scale_factor))

-----------------------------------------------------------------------------
(* Layout: a list.  The broadcast methods are list comprehensions over the     *)
(* members, [ele.f(..) for ele in self], made into a Layout.                   *)

Layout(elements) == [cls |-> "Layout", elements |-> elements]

\* One member of a comprehension: a is the comprehension before member k (the
\* values collected, the members and `other` as the calls so far left them, the
\* exception raised if one was) and e what member k's call did.  An exception
\* ends the comprehension.
\* the values collected from the last member to the first
broadcast_member_prepends(a, k, e) ==
    IF a.raised # NoValue THEN a
    ELSE [a EXCEPT !.elements[k] = e.recv,
                   !.oth = IF e.oth = NoValue THEN @ ELSE e.oth,
                   !.raised = IF IsErr(e.ret) THEN e.ret ELSE @,
                   !.results = IF IsErr(e.ret) THEN @ ELSE <<e.ret>> \o @]

broadcast_member(a, k, e) ==
    IF a.raised # NoValue THEN a
    ELSE [a EXCEPT !.elements[k] = e.recv,
                   !.oth = IF e.oth = NoValue THEN @ ELSE e.oth,
                   !.raised = IF IsErr(e.ret) THEN e.ret ELSE @,
                   !.results = IF IsErr(e.ret) THEN @ ELSE Append(@, e.ret)]

broadcast_start(L, o) ==
    [results |-> <<>>, elements |-> L.elements, oth |-> o, raised |-> NoValue]

\* the Layout made of the values collected, unless an exception was raised
broadcast_result(a) ==
    Eff(IF a.raised # NoValue THEN a.raised ELSE Layout(a.results),
        Layout(a.elements), a.oth)

\* ele.pad(**kwargs), ele a member of a Layout: the method of ele's class
ele_pad(ele, left, right, top, bottom, safe_mode) ==
    IF ele.cls = "TextBlock" THEN TextBlock_pad(ele, left, right, top, bottom, safe_mode)
    ELSE pad(ele, left, right, top, bottom, safe_mode)

Layout_pad(L, left, right, top, bottom, safe_mode) ==
    LET n == Len(L.elements)
        after[k \in 0..n] ==
            IF k = 0 THEN broadcast_start(L, NoValue)
            ELSE broadcast_member(after[k - 1], k,
                                  ele_pad(after[k - 1].elements[k],
                                          left, right, top, bottom, safe_mode))
    IN  broadcast_result(after[n])

-----------------------------------------------------------------------------
(* is_in.  soft_margin is the dict unpacked into other.pad's keywords, as a    *)
(* record of the four paddings (an absent key is pad's default, 0); pad's      *)
(* safe_mode is left at its default, True.                                     *)

Margin(left, right, top, bottom) ==
    [left |-> left, right |-> right, top |-> top, bottom |-> bottom]

NoMargin == Margin(0, 0, 0, 0)

\* other.pad(**soft_margin): the pad of other's class (a Layout has one too)
pad_by(o, soft_margin) ==
    IF o.cls = "Layout"
    THEN Layout_pad(o, soft_margin.left, soft_margin.right, soft_margin.top,
                    soft_margin.bottom, TRUE)
    ELSE pad(o, soft_margin.left, soft_margin.right, soft_margin.top, soft_margin.bottom,
             TRUE)

\* the sum of the ends compared, the division by 2. left out
within_undivided(lo, c, hi) == lo <= c[1] /\ c[1] <= hi

\* lo <= X/D <= hi
within(lo, c, hi) == lo * c[2] <= c[1] /\ c[1] <= hi * c[2]

\* Interval.is_in after its first statement, other = other.pad(**soft_margin):
\* e is what that pad did, e.ret the padded other
Interval_is_in_padded(s, e, center) ==
    CASE e.ret.cls = "Interval" ->
            IF s.axis # e.ret.axis THEN Eff(Bool(FALSE), s, e.recv)
            ELSE IF ~center
                 THEN Eff(Bool(e.ret.start <= s.start /\ s.start <= s.end /\ s.end <= e.ret.end),
                          s, e.recv)
                 ELSE Eff(Bool(within(e.ret.start, Interval_center(s), e.ret.end)), s, e.recv)
      [] e.ret.cls \in {"Rectangle", "Quadrilateral"} ->
            LET c == coordinates(e.ret)
                lo == IF s.axis = "x" THEN c[1] ELSE c[2]
                hi == IF s.axis = "x" THEN c[3] ELSE c[4]
            IN  IF center
                THEN Eff(Bool(within(lo, Interval_center(s), hi)), s, e.recv)
                ELSE Eff(Bool(lo <= s.start /\ s.start <= s.end /\ s.end <= hi), s, e.recv)
      [] e.ret.cls = "Error" -> Eff(e.ret, s, e.recv)
      [] OTHER -> Eff(Err("Exception"), s, e.recv)

Interval_is_in(s, o, soft_margin, center) ==
    Interval_is_in_padded(s, pad_by(o, soft_margin), center)

\* the Interval and Quadrilateral branches, which Rectangle.is_in and
\* Quadrilateral.is_in share line for line: c is the receiver's coordinates, ctr
\* its center, pts its points; o2 is the padded other
is_in_branch(c, ctr, pts, o2, center) ==
    CASE o2.cls = "Interval" ->
            IF ~center
            THEN LET start == IF o2.axis = "x" THEN c[1] ELSE c[2]
                     end == IF o2.axis = "x" THEN c[3] ELSE c[4]
                 IN  Bool(o2.start <= start /\ start <= end /\ end <= o2.end)
            ELSE LET cc == IF o2.axis = "x" THEN <<ctr[1], ctr[3]>> ELSE <<ctr[2], ctr[3]>>
                 IN  Bool(within(o2.start, cc, o2.end))
      [] o2.cls = "Quadrilateral" ->
            IF ~center
            THEN Bool(\A i \in 1..4 :
                        _vertice_in_polygon(<<pts[i][1], pts[i][2], 1>>, o2.points))
            ELSE Bool(_vertice_in_polygon(ctr, o2.points))

\* containment in the X span or in the Y span of a Rectangle taken for containment
Rectangle_is_in_either_axis(s, o, soft_margin, center) ==
    LET e == pad_by(o, soft_margin)
        o2 == e.ret
        branch(o3) == is_in_branch(Rectangle_coordinates(s), Rectangle_center(s),
                                   Rectangle_points(s), o3, center)
    IN  CASE o2.cls \in {"Interval", "Quadrilateral"} -> Eff(branch(o2), s, e.recv)
          [] o2.cls = "Rectangle" ->
                LET x_interval == Rectangle_to_interval(o2, "x")
                    y_interval == Rectangle_to_interval(o2, "y")
                IN  IF IsErr(x_interval) THEN Eff(x_interval, s, e.recv)
                    ELSE IF IsErr(y_interval) THEN Eff(y_interval, s, e.recv)
                    ELSE Eff(Bool(\/ branch(pad_by(x_interval, NoMargin).ret).val
                                  \/ branch(pad_by(y_interval, NoMargin).ret).val),
                             s, e.recv)
          [] o2.cls = "Error" -> Eff(o2, s, e.recv)
          [] OTHER -> Eff(Err("Exception"), s, e.recv)

RECURSIVE Rectangle_is_in(_, _, _, _)
\* Rectangle.is_in after its first statement, other = other.pad(**soft_margin):
\* e is what that pad did, e.ret the padded other
Rectangle_is_in_padded(s, e, center) ==
    CASE e.ret.cls \in {"Interval", "Quadrilateral"} ->
            Eff(is_in_branch(Rectangle_coordinates(s), Rectangle_center(s),
                             Rectangle_points(s), e.ret, center), s, e.recv)
      [] e.ret.cls = "Rectangle" ->
            LET x_interval == Rectangle_to_interval(e.ret, "x")
                y_interval == Rectangle_to_interval(e.ret, "y")
            IN  IF IsErr(x_interval) THEN Eff(x_interval, s, e.recv)
                ELSE IF IsErr(y_interval) THEN Eff(y_interval, s, e.recv)
                ELSE Eff(Bool(/\ Rectangle_is_in(s, x_interval, NoMargin, center).ret.val
                              /\ Rectangle_is_in(s, y_interval, NoMargin, center).ret.val),
                         s, e.recv)
      [] e.ret.cls = "Error" -> Eff(e.ret, s, e.recv)
      [] OTHER -> Eff(Err("Exception"), s, e.recv)

Rectangle_is_in(s, o, soft_margin, center) ==
    Rectangle_is_in_padded(s, pad_by(o, soft_margin), center)

RECURSIVE Quadrilateral_is_in(_, _, _, _)
\* Quadrilateral.is_in after its first statement, other = other.pad(**soft_margin):
\* e is what that pad did, e.ret the padded other
Quadrilateral_is_in_padded(s, e, center) ==
    CASE e.ret.cls \in {"Interval", "Quadrilateral"} ->
            Eff(is_in_branch(Quadrilateral_coordinates(s), Quadrilateral_center(s),
                             s.points, e.ret, center), s, e.recv)
      [] e.ret.cls = "Rectangle" ->
            LET x_interval == Rectangle_to_interval(e.ret, "x")
                y_interval == Rectangle_to_interval(e.ret, "y")
            IN  IF IsErr(x_interval) THEN Eff(x_interval, s, e.recv)
                ELSE IF IsErr(y_interval) THEN Eff(y_interval, s, e.recv)
                ELSE Eff(Bool(/\ Quadrilateral_is_in(s, x_interval, NoMargin, center).ret.val
                              /\ Quadrilateral_is_in(s, y_interval, NoMargin, center).ret.val),
                         s, e.recv)
      [] e.ret.cls = "Error" -> Eff(e.ret, s, e.recv)
      [] OTHER -> Eff(Err("Exception"), s, e.recv)

Quadrilateral_is_in(s, o, soft_margin, center) ==
    Quadrilateral_is_in_padded(s, pad_by(o, soft_margin), center)

is_in(e, o, soft_margin, center) ==
    decorated(o, CASE e.cls = "Interval" ->
                        Interval_is_in(e, support_textblock(o), soft_margin, center)
                   [] e.cls = "Rectangle" ->
                        Rectangle_is_in(e, support_textblock(o), soft_margin, center)
                   [] e.cls = "Quadrilateral" ->
                        Quadrilateral_is_in(e, support_textblock(o), soft_margin, center))

\* a method of TextBlock that is not decorated: e is the effect of the call on
\* s.block, whose value is returned as it is
forwarded(s, e) == Eff(e.ret, [s EXCEPT !.block = e.recv], e.oth)

TextBlock_is_in(s, o, soft_margin, center) ==
    forwarded(s, is_in(s.block, o, soft_margin, center))

-----------------------------------------------------------------------------
(* Layout: the other broadcast methods *)

\* ele.relative_to(other), ele.condition_on(other), ...: the method of ele's class
ele_relative_to(ele, o) ==
    IF ele.cls = "TextBlock" THEN TextBlock_relative_to(ele, o) ELSE relative_to(ele, o)

ele_condition_on(ele, o) ==
    IF ele.cls = "TextBlock" THEN TextBlock_condition_on(ele, o) ELSE condition_on(ele, o)

ele_is_in(ele, o, soft_margin, center) ==
    IF ele.cls = "TextBlock" THEN TextBlock_is_in(ele, o, soft_margin, center)
    ELSE is_in(ele, o, soft_margin, center)

ele_shift(ele, shift_distance) ==
    IF ele.cls = "TextBlock" THEN TextBlock_shift(ele, shift_distance)
    ELSE shift(ele, shift_distance)

ele_scale(ele, scale_factor) ==
    IF ele.cls = "TextBlock" THEN TextBlock_scale(ele, scale_factor)
    ELSE scale(ele, scale_factor)

Layout_relative_to(L, o) ==
    LET n == Len(L.elements)
        after[k \in 0..n] ==
            IF k = 0 THEN broadcast_start(L, o)
            ELSE broadcast_member(after[k - 1], k,
                                  ele_relative_to(after[k - 1].elements[k], after[k - 1].oth))
    IN  broadcast_result(after[n])

Layout_condition_on(L, o) ==
    LET n == Len(L.elements)
        after[k \in 0..n] ==
            IF k = 0 THEN broadcast_start(L, o)
            ELSE broadcast_member(after[k - 1], k,
                                  ele_condition_on(after[k - 1].elements[k], after[k - 1].oth))
    IN  broadcast_result(after[n])

Layout_is_in(L, o, soft_margin, center) ==
    LET n == Len(L.elements)
        after[k \in 0..n] ==
            IF k = 0 THEN broadcast_start(L, o)
            ELSE broadcast_member(after[k - 1], k,
                                  ele_is_in(after[k - 1].elements[k], after[k - 1].oth,
                                            soft_margin, center))
    IN  broadcast_result(after[n])

Layout_shift(L, shift_distance) ==
    LET n == Len(L.elements)
        after[k \in 0..n] ==
            IF k = 0 THEN broadcast_start(L, NoValue)
            ELSE broadcast_member(after[k - 1], k,
                                  ele_shift(after[k - 1].elements[k], shift_distance))
    IN  broadcast_result(after[n])

Layout_scale(L, scale_factor) ==
    LET n == Len(L.elements)
        after[k \in 0..n] ==
            IF k = 0 THEN broadcast_start(L, NoValue)
            ELSE broadcast_member(after[k - 1], k,
                                  ele_scale(after[k - 1].elements[k], scale_factor))
    IN  broadcast_result(after[n])

-----------------------------------------------------------------------------
(* Layout.filter_by *)

\* the members kept, in the opposite order
filter_by_reversed(L, o, soft_margin, center) ==
    LET In(e) == is_in(e, o, soft_margin, center).ret
        Kept(e) == ~IsErr(In(e)) /\ In(e).val
        kept == SelectSeq(L.elements, Kept)
        n == Len(kept)
        raising == {k \in 1..Len(L.elements) : IsErr(In(L.elements[k]))}
    IN  IF raising # {} THEN Eff(Err("Exception"), L, o)
        ELSE Eff(Layout([k \in 1..n |-> kept[n + 1 - k]]), L, o)

\* One member of the comprehension [ele for ele in self if ele.is_in(other, ...)]:
\* a is the comprehension before member k (the members kept, the members and
\* `other` as the calls so far left them, the exception raised if one was) and e
\* what member k's is_in did.  An exception ends the comprehension.
filter_member(a, k, e) ==
    IF a.raised # NoValue THEN a
    ELSE IF IsErr(e.ret)
         THEN [a EXCEPT !.elements[k] = e.recv, !.oth = e.oth, !.raised = e.ret]
         ELSE [a EXCEPT !.elements[k] = e.recv, !.oth = e.oth,
                        !.kept = IF e.ret.val THEN Append(@, e.recv) ELSE @]

\* the list made of the members kept, unless an exception was raised
filter_result(a) ==
    Eff(IF a.raised # NoValue THEN a.raised ELSE Layout(a.kept), Layout(a.elements), a.oth)

Layout_filter_by(L, o, soft_margin, center) ==
    LET n == Len(L.elements)
        after[k \in 0..n] ==
            IF k = 0
            THEN [kept |-> <<>>, elements |-> L.elements, oth |-> o, raised |-> NoValue]
            ELSE filter_member(after[k - 1], k,
                               is_in(after[k - 1].elements[k], after[k - 1].oth,
                                     soft_margin, center))
    IN  filter_result(after[n])

-----------------------------------------------------------------------------
(* The elements enumerated *)

Ties == {"index", "reverse"}

\* canvas sizes <<canvas_height, canvas_width>> of the enumerated Intervals
Canvases == {<<0, 0>>, <<1, 2>>}

OrderedPairs == {p \in Coords \X Coords : p[1] <= p[2]}
StrictPairs == {p \in Coords \X Coords : p[1] < p[2]}

\* Intervals as the constructor admits them: start <= end
Intervals ==
    {IntervalRec(p[1], p[2], ax, c[1], c[2]) : p \in OrderedPairs, ax \in Axes, c \in Canvases}

BareIntervals == {i \in Intervals : i.canvas_height = 0 /\ i.canvas_width = 0}

\* Rectangles with x_1 <= x_2 and y_1 <= y_2
Rectangles == {Rectangle(px[1], py[1], px[2], py[2]) : px \in OrderedPairs, py \in OrderedPairs}

\* the constructor checks nothing: any four numbers make a Rectangle
AnyRectangles == {Rectangle(a, b, c, d) : a \in Coords, b \in Coords, c \in Coords, d \in Coords}

ValidRectangle(r) == r.x_1 <= r.x_2 /\ r.y_1 <= r.y_2

\* A quadrilateral on the corners (x1,y1), (x2,y1), (x2,y2), (x1,y2), clockwise
\* from the top left, its top edge moved right by sk and its bottom right corner
\* moved right by tp: a rectangle (0, 0), a parallelogram (sk # 0), a trapezoid
\* (tp # 0; with the bottom corners one apart and tp = -1, a triangle).
QuadOf(x1, y1, x2, y2, sk, tp) ==
    Quadrilateral(<< <<x1 + sk, y1>>, <<x2 + sk, y1>>, <<x2 + tp, y2>>, <<x1, y2>> >>,
                  None, None)

Shapes == {<<0, 0>>, <<1, 0>>, <<0 - 1, 0>>, <<0, 1>>, <<0, 0 - 1>>}

Quadrilaterals ==
    {QuadOf(px[1], py[1], px[2], py[2], sh[1], sh[2]) :
        px \in StrictPairs, py \in StrictPairs, sh \in Shapes}

Elements == Intervals \cup Rectangles \cup Quadrilaterals

\* the `other` of the specifications that enumerate the receiver and the arguments
Regions ==
    {IntervalRec(1, 1, "x", 0, 0), IntervalRec(0 - 1, 0, "y", 0, 0),
     Rectangle(0 - 1, 0, 1, 1), QuadOf(0, 0, 1, 1, 1, 0)}

\* the values of the documented examples of is_in
ExampleRectangles == {Rectangle(10, 10, 20, 20), Rectangle(0, 0, 30, 30), Rectangle(0, 0, 5, 5)}
ExampleIntervals == {IntervalRec(5, 15, "x", 0, 0), IntervalRec(0, 10, "x", 0, 0)}

\* soft margins: none, one side padded, and those of the documented example
Margins ==
    {NoMargin}
    \cup {Margin(p, 0, 0, 0) : p \in Pads} \cup {Margin(0, p, 0, 0) : p \in Pads}
    \cup {Margin(0, 0, p, 0) : p \in Pads} \cup {Margin(0, 0, 0, p) : p \in Pads}
    \cup {Margin(0, 50, 0, 0), Margin(0, 50, 0, 15)}

\* soft margins of every combination of sides, no entry below 0
WideningMargins ==
    {Margin(l, r, t, b) : l \in 0..MaxPad, r \in 0..MaxPad, t \in 0..MaxPad, b \in 0..MaxPad}

\* and those with one entry below 0
SoftMargins ==
    WideningMargins
    \cup {Margin(0 - 1, 0, 0, 0), Margin(0, 0 - 1, 0, 0), Margin(0, 0, 0 - 1, 0),
          Margin(0, 0, 0, 0 - 1)}

\* shift distances and scale factors: a number, or a list of two
Amounts == {Scalar(d) : d \in Pads} \cup {Vector(<<dx, dy>>) : dx \in Pads, dy \in Pads}

\* the keyword arguments given to set: fields of the class, and one of another class
SetKwargs(e) ==
    CASE e.cls = "Interval" ->
            {[start |-> v] : v \in Coords} \cup {[end |-> v] : v \in Coords}
            \cup {[canvas_height |-> v, canvas_width |-> v] : v \in Coords}
            \cup {[x_1 |-> v] : v \in Coords}
      [] e.cls = "Rectangle" ->
            {[x_1 |-> v] : v \in Coords} \cup {[y_2 |-> v] : v \in Coords}
            \cup {[start |-> v] : v \in Coords}
      [] e.cls = "Quadrilateral" ->
            {[height |-> Some(v)] : v \in Coords}
            \cup {[points |-> _cvt_coordinates_to_points(<<v, v, v + 1, v + 1>>)] : v \in Coords}
            \cup {[start |-> v] : v \in Coords}

\* the members of the enumerated Layouts
Members ==
    {i \in BareIntervals : i.axis = "x"}
    \cup {Rectangle(p[1], p[1], p[2], p[2]) : p \in OrderedPairs}
    \cup {QuadOf(0, 0, 1, 1, 0, 0)}

Layouts == UNION {[1..n -> Members] : n \in 0..MaxLen}

-----------------------------------------------------------------------------
(* Calls.  self is the receiver, other the argument, out what the last call   *)
(* returned, op the method called and args its remaining arguments.  A Call   *)
(* action is a call on self; a Then action is a call on the value the last    *)
(* call returned, x.f(..).g(..), and args.receiver is that value.             *)

NoArgs == [none |-> TRUE]

Fresh == op = "init"

Call(name, a, e) ==
    /\ op' = name
    /\ args' = a
    /\ out' = e.ret
    /\ self' = e.recv
    /\ other' = IF e.oth = NoValue THEN other ELSE e.oth
    /\ UNCHANGED <<argsort_tie, layout, depth>>

Then(name, a, e) ==
    /\ op' = name
    /\ args' = a
    /\ out' = e.ret
    /\ other' = IF e.oth = NoValue THEN other ELSE e.oth
    /\ UNCHANGED <<self, argsort_tie, layout, depth>>

CallConditionOn ==
    /\ Fresh
    /\ Call("condition_on", NoArgs, condition_on(self, other))

CallRelativeTo ==
    /\ Fresh
    /\ Call("relative_to", NoArgs, relative_to(self, other))

\* self.condition_on(other).relative_to(other)
ThenRelativeTo ==
    /\ op = "condition_on"
    /\ IsElement(out)
    /\ Then("condition_on.relative_to", [receiver |-> out], relative_to(out, other))

CallPad ==
    \E left \in Pads, right \in Pads, top \in Pads, bottom \in Pads, safe_mode \in BOOLEAN :
        /\ Fresh
        /\ Call("pad", [left |-> left, right |-> right, top |-> top, bottom |-> bottom,
                        safe_mode |-> safe_mode],
                pad(self, left, right, top, bottom, safe_mode))

\* self.pad(l, r, t, b, safe_mode=False).pad(-l, -r, -t, -b, safe_mode=False)
ThenPadBack ==
    /\ op = "pad"
    /\ ~args.safe_mode
    /\ IsElement(out)
    /\ Then("pad.pad",
            [receiver |-> out, left |-> 0 - args.left, right |-> 0 - args.right,
             top |-> 0 - args.top, bottom |-> 0 - args.bottom, safe_mode |-> FALSE],
            pad(out, 0 - args.left, 0 - args.right, 0 - args.top, 0 - args.bottom, FALSE))

CallShift ==
    \E shift_distance \in Amounts :
        /\ Fresh
        /\ Call("shift", [shift_distance |-> shift_distance], shift(self, shift_distance))

CallScale ==
    \E scale_factor \in Amounts :
        /\ Fresh
        /\ Call("scale", [scale_factor |-> scale_factor], scale(self, scale_factor))

CallSet ==
    \E inplace \in BOOLEAN, kwargs \in SetKwargs(self) :
        /\ Fresh
        /\ Call("set", [inplace |-> inplace, kwargs |-> kwargs], set(self, inplace, kwargs))

\* self.put_on_canvas(other): a method of Interval alone
CallPutOnCanvas ==
    /\ Fresh
    /\ self.cls = "Interval"
    /\ Call("put_on_canvas", NoArgs, Interval_put_on_canvas(self, other))

CallIsIn ==
    \E soft_margin \in Margins, center \in BOOLEAN :
        /\ Fresh
        /\ Call("is_in", [soft_margin |-> soft_margin, center |-> center],
                is_in(self, other, soft_margin, center))

\* self.is_in(other, soft_margin, center), the margin on any sides at once
CallIsInWithin ==
    \E soft_margin \in SoftMargins, center \in BOOLEAN :
        /\ Fresh
        /\ Call("is_in", [soft_margin |-> soft_margin, center |-> center],
                is_in(self, other, soft_margin, center))

CallToRectangle ==
    /\ Fresh
    /\ self.cls \in {"Interval", "Quadrilateral"}
    /\ Call("to_rectangle", NoArgs,
            Eff(IF self.cls = "Interval" THEN Interval_to_rectangle(self)
                ELSE Quadrilateral_to_rectangle(self), self, NoValue))

CallToQuadrilateral ==
    /\ Fresh
    /\ self.cls \in {"Interval", "Rectangle"}
    /\ Call("to_quadrilateral", NoArgs,
            Eff(IF self.cls = "Interval" THEN Interval_to_quadrilateral(self)
                ELSE Rectangle_to_quadrilateral(self), self, NoValue))

CallToInterval ==
    \E axis \in Axes :
        /\ Fresh
        /\ self.cls \in {"Rectangle", "Quadrilateral"}
        /\ Call("to_interval", [axis |-> axis],
                Eff(IF self.cls = "Rectangle" THEN Rectangle_to_interval(self, axis)
                    ELSE Quadrilateral_to_interval(self, axis), self, NoValue))

\* self.to_quadrilateral().to_rectangle()
ThenToRectangle ==
    /\ op = "to_quadrilateral"
    /\ Then("to_quadrilateral.to_rectangle", [receiver |-> out],
            Eff(Quadrilateral_to_rectangle(out), out, NoValue))

\* self.to_rectangle().to_quadrilateral()
ThenToQuadrilateral ==
    /\ op = "to_rectangle"
    /\ Then("to_rectangle.to_quadrilateral", [receiver |-> out],
            Eff(Rectangle_to_quadrilateral(out), out, NoValue))

\* a call on the Layout
CallLayout(name, a, e) ==
    /\ op' = name
    /\ args' = a
    /\ out' = e.ret
    /\ layout' = e.recv
    /\ other' = e.oth
    /\ UNCHANGED <<self, argsort_tie, depth>>

\* layout.filter_by(other, soft_margin=..., center=...)
CallFilterBy ==
    \E soft_margin \in Margins, center \in BOOLEAN :
        /\ Fresh
        /\ CallLayout("filter_by", [soft_margin |-> soft_margin, center |-> center],
                      Layout_filter_by(layout, other, soft_margin, center))

\* x = x.f(..): the Interval returned becomes the receiver of the next call
Rebind ==
    /\ ~Fresh
    /\ out.cls = "Interval"
    /\ depth < MaxDepth
    /\ self' = out
    /\ out' = NoValue
    /\ op' = "init"
    /\ args' = NoArgs
    /\ depth' = depth + 1
    /\ UNCHANGED <<other, argsort_tie, layout>>

\* values given as `other` that are neither a coordinate element nor a TextBlock:
\* None, a number, a Layout (which has a pad method of its own)
Number(n) == [cls |-> "int", val |-> n]

Unsupported ==
    {NoValue, Number(1), Layout(<<>>), Layout(<<Rectangle(0, 0, 1, 1)>>)}

\* self.area
CallArea ==
    /\ Fresh
    /\ Call("area", NoArgs, Eff(area(self), self, NoValue))

\* Quadrilateral(self.points)
NewQuadrilateral ==
    /\ Fresh
    /\ Call("Quadrilateral", NoArgs, Eff(Quadrilateral(points(self), None, None), self, NoValue))

\* Quadrilateral(self.points).area
ThenArea ==
    /\ op = "Quadrilateral"
    /\ Then("Quadrilateral.area", [receiver |-> out], Eff(area(out), self, NoValue))

\* the rows given to Interval.from_series: every field missing or a coordinate
Fields == {None} \cup {Some(v) : v \in Coords}

Rows ==
    {Series(x_1, y_1, x_2, y_2, c[1], c[2]) :
        x_1 \in Fields, y_1 \in Fields, x_2 \in Fields, y_2 \in Fields,
        c \in {<<None, None>>, <<Some(0), Some(0)>>, <<Some(1), Some(2)>>}}

\* Interval.from_series(other)
CallFromSeries ==
    /\ Fresh
    /\ Call("from_series", NoArgs, Eff(Interval_from_series(other), self, other))

\* parallelograms whose top edge lies to the left, or to the right, of the whole
\* bottom edge
SkewedQuadrilaterals ==
    {QuadOf(px[1], py[1], px[2], py[2], sk, 0) :
        px \in StrictPairs, py \in StrictPairs, sk \in {0 - (MaxCoord + 2), MaxCoord + 2}}

\* self.mapped_rectangle_points
CallMappedRectanglePoints ==
    /\ Fresh
    /\ self.cls = "Quadrilateral"
    /\ Call("mapped_rectangle_points", NoArgs,
            Eff(Ndarray(Quadrilateral_mapped_rectangle_points(self)), self, NoValue))

\* self.perspective_matrix
CallPerspectiveMatrix ==
    /\ Fresh
    /\ self.cls = "Quadrilateral"
    /\ Call("perspective_matrix", NoArgs,
            Eff(Quadrilateral_perspective_matrix(self), self, NoValue))

\* self.to_quadrilateral().pad(left, right, top, bottom, safe_mode)
ThenPad ==
    \E left \in Pads, right \in Pads, top \in Pads, bottom \in Pads, safe_mode \in BOOLEAN :
        /\ op = "to_quadrilateral"
        /\ Then("to_quadrilateral.pad",
                [receiver |-> out, left |-> left, right |-> right, top |-> top,
                 bottom |-> bottom, safe_mode |-> safe_mode],
                pad(out, left, right, top, bottom, safe_mode))

-----------------------------------------------------------------------------
(* Calls on a TextBlock *)

\* the blocks of the enumerated TextBlocks
Blocks == Regions \cup Members

\* the content fields <<text, id, type, parent, next, score>>: the constructor's
\* defaults, and every field given
Contents ==
    {<<"", None, None, None, None, None>>,
     <<"text", Some(1), Some(2), Some(3), Some(4), Some(5)>>}

TextBlocks ==
    {TextBlock(b, c[1], c[2], c[3], c[4], c[5], c[6]) : b \in Blocks, c \in Contents}

\* `other`: an element, or a TextBlock around one
WrappedRegions ==
    Regions \cup {TextBlock(r, "other", Some(7), None, None, None, None) : r \in Regions}

TextBlockConditionOn ==
    /\ Fresh
    /\ Call("condition_on", NoArgs, TextBlock_condition_on(self, other))

TextBlockRelativeTo ==
    /\ Fresh
    /\ Call("relative_to", NoArgs, TextBlock_relative_to(self, other))

TextBlockIsIn ==
    \E soft_margin \in Margins, center \in BOOLEAN :
        /\ Fresh
        /\ Call("is_in", [soft_margin |-> soft_margin, center |-> center],
                TextBlock_is_in(self, other, soft_margin, center))

TextBlockShift ==
    \E shift_distance \in Amounts :
        /\ Fresh
        /\ Call("shift", [shift_distance |-> shift_distance],
                TextBlock_shift(self, shift_distance))

TextBlockPad ==
    \E left \in Pads, right \in Pads, top \in Pads, bottom \in Pads, safe_mode \in BOOLEAN :
        /\ Fresh
        /\ Call("pad", [left |-> left, right |-> right, top |-> top, bottom |-> bottom,
                        safe_mode |-> safe_mode],
                TextBlock_pad(self, left, right, top, bottom, safe_mode))

TextBlockScale ==
    \E scale_factor \in Amounts :
        /\ Fresh
        /\ Call("scale", [scale_factor |-> scale_factor],
                TextBlock_scale(self, scale_factor))

-----------------------------------------------------------------------------
(* Calls broadcast by a Layout *)

\* the members of the Layouts that broadcast: elements of the three classes and
\* TextBlocks
BroadcastMembers ==
    {IntervalRec(0, 1, "x", 0, 0), Rectangle(0 - 1, 0 - 1, 0 - 1, 0 - 1), Rectangle(0, 0, 1, 1),
     QuadOf(0, 0, 1, 1, 1, 0),
     TextBlock(Rectangle(0 - 1, 0, 1, 1), "text", Some(1), Some(2), Some(3), Some(4), Some(5)),
     TextBlock(IntervalRec(0 - 1, 1, "y", 1, 2), "", None, None, None, None, None)}

BroadcastLayouts == UNION {[1..n -> BroadcastMembers] : n \in 0..MaxLen}

\* `other` of the broadcast calls; the last one is a Rectangle that is_in cannot
\* turn into Intervals once it is padded (the assertion of Interval fails)
BroadcastRegions == WrappedRegions \cup {Rectangle(0 - 1, 0 - 1, 0 - 1, 0 - 1)}

LayoutRelativeTo ==
    /\ Fresh
    /\ CallLayout("relative_to", NoArgs, Layout_relative_to(layout, other))

LayoutConditionOn ==
    /\ Fresh
    /\ CallLayout("condition_on", NoArgs, Layout_condition_on(layout, other))

LayoutIsIn ==
    \E soft_margin \in Margins, center \in BOOLEAN :
        /\ Fresh
        /\ CallLayout("is_in", [soft_margin |-> soft_margin, center |-> center],
                      Layout_is_in(layout, other, soft_margin, center))

LayoutShift ==
    \E shift_distance \in Amounts :
        /\ Fresh
        /\ CallLayout("shift", [shift_distance |-> shift_distance],
                      [Layout_shift(layout, shift_distance) EXCEPT !.oth = other])

LayoutPad ==
    \E left \in Pads, right \in Pads, top \in Pads, bottom \in Pads, safe_mode \in BOOLEAN :
        /\ Fresh
        /\ CallLayout("pad", [left |-> left, right |-> right, top |-> top,
                              bottom |-> bottom, safe_mode |-> safe_mode],
                      [Layout_pad(layout, left, right, top, bottom, safe_mode)
                            EXCEPT !.oth = other])

LayoutScale ==
    \E scale_factor \in Amounts :
        /\ Fresh
        /\ CallLayout("scale", [scale_factor |-> scale_factor],
                      [Layout_scale(layout, scale_factor) EXCEPT !.oth = other])

-----------------------------------------------------------------------------
(* Specifications.  Each starts from constructed values and no call made.     *)

NoCall ==
    /\ out = NoValue
    /\ op = "init"
    /\ args = NoArgs
    /\ depth = 0

\* every geometric operation, once, on every enumerated element
Init ==
    /\ self \in Elements
    /\ other \in Regions
    /\ argsort_tie \in Ties
    /\ layout = Layout(<<>>)
    /\ NoCall

Next ==
    \/ CallPad
    \/ CallShift
    \/ CallScale
    \/ CallSet
    \/ CallPutOnCanvas
    \/ CallConditionOn
    \/ CallRelativeTo
    \/ CallIsIn
    \/ CallToRectangle
    \/ CallToQuadrilateral
    \/ CallToInterval

Spec == Init /\ [][Next]_vars

\* the frame transforms and their composition
InitFrame ==
    /\ self \in Elements
    /\ other \in BareIntervals \cup Rectangles \cup Quadrilaterals
    /\ argsort_tie \in Ties
    /\ layout = Layout(<<>>)
    /\ NoCall

NextFrame == CallConditionOn \/ CallRelativeTo \/ ThenRelativeTo

SpecFrame == InitFrame /\ [][NextFrame]_vars

\* pad, and pad undone by the opposite pad
InitPad ==
    /\ self \in Elements
    /\ other = NoValue
    /\ argsort_tie \in Ties
    /\ layout = Layout(<<>>)
    /\ NoCall

NextPad == CallPad \/ ThenPadBack

SpecPad == InitPad /\ [][NextPad]_vars

\* the conversions between the classes (no point array is ranked by them)
InitConvert ==
    /\ self \in Intervals \cup AnyRectangles \cup Quadrilaterals
    /\ other = NoValue
    /\ argsort_tie = "index"
    /\ layout = Layout(<<>>)
    /\ NoCall

NextConvert ==
    \/ CallToRectangle
    \/ CallToQuadrilateral
    \/ CallToInterval
    \/ ThenToRectangle
    \/ ThenToQuadrilateral

SpecConvert == InitConvert /\ [][NextConvert]_vars

\* is_in between Intervals and Rectangles (no point array is ranked)
InitIsIn ==
    /\ \E pair \in ((BareIntervals \cup Rectangles) \X (BareIntervals \cup Rectangles))
                    \cup (ExampleRectangles \X ExampleRectangles)
                    \cup (ExampleIntervals \X ExampleIntervals) :
            self = pair[1] /\ other = pair[2]
    /\ argsort_tie = "index"
    /\ layout = Layout(<<>>)
    /\ NoCall

NextIsIn == CallIsIn

SpecIsIn == InitIsIn /\ [][NextIsIn]_vars

\* is_in of every enumerated element in every enumerated container
InitContain ==
    /\ self \in BareIntervals \cup Rectangles \cup Quadrilaterals
    /\ other \in BareIntervals \cup Rectangles \cup Quadrilaterals
    /\ argsort_tie \in Ties
    /\ layout = Layout(<<>>)
    /\ NoCall

NextContain == CallIsInWithin

SpecContain == InitContain /\ [][NextContain]_vars

\* filter_by on the enumerated Layouts
InitLayout ==
    /\ layout \in {Layout(l) : l \in Layouts}
    /\ other \in Members
    /\ self = NoValue
    /\ argsort_tie \in Ties
    /\ NoCall

NextLayout == CallFilterBy

SpecLayout == InitLayout /\ [][NextLayout]_vars

\* chains of calls from a constructed Interval
InitInterval ==
    /\ self \in Intervals
    /\ other \in Regions
    /\ argsort_tie \in Ties
    /\ layout = Layout(<<>>)
    /\ NoCall

NextInterval ==
    \/ CallPad
    \/ CallShift
    \/ CallScale
    \/ CallSet
    \/ CallPutOnCanvas
    \/ CallConditionOn
    \/ CallRelativeTo
    \/ Rebind

SpecInterval == InitInterval /\ [][NextInterval]_vars

\* a Rectangle padded, and padded as a Quadrilateral
InitPadAsQuadrilateral ==
    /\ self \in Rectangles \cup ExampleRectangles
    /\ other = NoValue
    /\ argsort_tie \in Ties
    /\ layout = Layout(<<>>)
    /\ NoCall

NextPadAsQuadrilateral == CallPad \/ CallToQuadrilateral \/ ThenPad

SpecPadAsQuadrilateral == InitPadAsQuadrilateral /\ [][NextPadAsQuadrilateral]_vars

\* the rectangle a Quadrilateral is mapped to, and the matrix that maps it
InitMapped ==
    /\ self \in Quadrilaterals \cup SkewedQuadrilaterals
    /\ other = NoValue
    /\ argsort_tie \in Ties
    /\ layout = Layout(<<>>)
    /\ NoCall

NextMapped == CallMappedRectanglePoints \/ CallPerspectiveMatrix

SpecMapped == InitMapped /\ [][NextMapped]_vars

\* an Interval read from a row
InitSeries ==
    /\ self = NoValue
    /\ other \in Rows
    /\ argsort_tie = "index"
    /\ layout = Layout(<<>>)
    /\ NoCall

NextSeries == CallFromSeries

SpecSeries == InitSeries /\ [][NextSeries]_vars

\* the area of an element, and of the Quadrilateral built from its points
InitArea ==
    /\ self \in Intervals \cup AnyRectangles \cup Quadrilaterals \cup {Rectangle(0, 0, 100, 50)}
    /\ other = NoValue
    /\ argsort_tie = "index"
    /\ layout = Layout(<<>>)
    /\ NoCall

NextArea == CallArea \/ NewQuadrilateral \/ ThenArea

SpecArea == InitArea /\ [][NextArea]_vars

\* the three operations that take `other`, given a value of no supported class
InitMismatch ==
    /\ self \in Elements
    /\ other \in Unsupported
    /\ argsort_tie \in Ties
    /\ layout = Layout(<<>>)
    /\ NoCall

NextMismatch == CallConditionOn \/ CallRelativeTo \/ CallIsIn

SpecMismatch == InitMismatch /\ [][NextMismatch]_vars

\* the methods a Layout broadcasts to its members
InitBroadcast ==
    /\ layout \in {Layout(l) : l \in BroadcastLayouts}
    /\ other \in BroadcastRegions
    /\ self = NoValue
    /\ argsort_tie \in Ties
    /\ NoCall

NextBroadcast ==
    \/ LayoutRelativeTo
    \/ LayoutConditionOn
    \/ LayoutIsIn
    \/ LayoutShift
    \/ LayoutPad
    \/ LayoutScale

SpecBroadcast == InitBroadcast /\ [][NextBroadcast]_vars

\* every geometric operation of a TextBlock, once
InitTextBlock ==
    /\ self \in TextBlocks
    /\ other \in WrappedRegions
    /\ argsort_tie \in Ties
    /\ layout = Layout(<<>>)
    /\ NoCall

NextTextBlock ==
    \/ TextBlockConditionOn
    \/ TextBlockRelativeTo
    \/ TextBlockIsIn
    \/ TextBlockShift
    \/ TextBlockPad
    \/ TextBlockScale

SpecTextBlock == InitTextBlock /\ [][NextTextBlock]_vars

-----------------------------------------------------------------------------
(* The frame transforms composed: g.condition_on(other).relative_to(other)    *)

RoundTrip == op = "condition_on.relative_to"

\* the receiver the round trip is to give back: an Interval is put on the canvas
\* of `other` before it is converted
OnCanvasOf(g, o) == IF g.cls = "Interval" THEN Interval_put_on_canvas(g, o).ret ELSE g

\* C1, as claimed: with an Interval or a Rectangle as other,
\* g.condition_on(other).relative_to(other) == g for every g.
C1_RoundTripIsIdentity ==
    (RoundTrip /\ other.cls \in {"Interval", "Rectangle"}) => eq(out, self)

\* C1, as the code has it: with an Interval or a Rectangle as other, the round
\* trip gives back a Rectangle or a Quadrilateral g; it gives back an Interval g
\* from an Interval other on the other axis, and g with its canvas size reset to 0
\* from an Interval other on g's axis; from a Rectangle other an Interval g comes
\* back as the Rectangle of g put on the canvas of other.
C1_RoundTripOverIntervalOrRectangle ==
    (RoundTrip /\ other.cls \in {"Interval", "Rectangle"}) =>
        CASE self.cls \in {"Rectangle", "Quadrilateral"} -> eq(out, self)
          [] self.cls = "Interval" /\ other.cls = "Interval" ->
                IF other.axis # self.axis THEN eq(out, self)
                ELSE out = IntervalRec(self.start, self.end, self.axis, 0, 0)
          [] self.cls = "Interval" /\ other.cls = "Rectangle" ->
                /\ out.cls = "Rectangle"
                /\ coordinates(out) = coordinates(OnCanvasOf(self, other))

\* a Quadrilateral moved by a Rectangle with x_1 # 0, and moved back
C1_QuadrilateralMovedAndBack ==
    /\ RoundTrip
    /\ self.cls = "Quadrilateral"
    /\ other.cls = "Rectangle"
    /\ other.x_1 # 0
    /\ args.receiver.points # self.points
    /\ eq(out, self)

\* C2, as claimed: with a Quadrilateral as other whose perspective matrix is
\* invertible, g.condition_on(other).relative_to(other) == g: g's class, g's points.
C2_PerspectiveRoundTripIsIdentity ==
    (RoundTrip /\ other.cls = "Quadrilateral") => eq(out, self)

\* C2, as the code has it: with a Quadrilateral as other whose perspective matrix
\* is invertible, the round trip returns a Quadrilateral whatever g's class, and
\* its points are g's points (those of g put on the canvas of other, for an
\* Interval g) when condition_on sent no corner of g to infinity.
C2_PerspectiveRoundTripGivesQuadrilateral ==
    (RoundTrip /\ other.cls = "Quadrilateral") =>
        /\ out.cls = "Quadrilateral"
        /\ (\A i \in 1..4 : IsFinitePoint(args.receiver.points[i])) =>
                out.points = points(OnCanvasOf(self, other))

\* a Quadrilateral through the perspective of a Quadrilateral that is no
\* rectangle, moved by it, and back
C2_QuadrilateralThroughPerspectiveAndBack ==
    /\ RoundTrip
    /\ self.cls = "Quadrilateral"
    /\ other.cls = "Quadrilateral"
    /\ other.points[1][1] # other.points[4][1]
    /\ args.receiver.points # self.points
    /\ out.points = self.points

-----------------------------------------------------------------------------
(* pad undone: g.pad(l, r, t, b, safe_mode=False).pad(-l, -r, -t, -b, safe_mode=False) *)

PaddedBack == op = "pad.pad"

\* the first pad's paddings were all >= 0 (args holds those of the second pad)
PaddedOutwards == args.left <= 0 /\ args.right <= 0 /\ args.top <= 0 /\ args.bottom <= 0

\* C3, as claimed: for every g and all paddings of any sign,
\* g.pad(l, r, t, b, safe_mode=False).pad(-l, -r, -t, -b, safe_mode=False) == g.
C3_PadThenOppositePadIsIdentity == PaddedBack => eq(out, self)

\* C3, as the code has it: the opposite pad gives back every Interval and every
\* Rectangle, for paddings of any sign; it gives back a Quadrilateral when the
\* first pad left the rank of every corner among the x's and among the y's as it
\* was, which paddings that are all >= 0 do.
C3_PadThenOppositePad ==
    PaddedBack =>
        /\ self.cls \in {"Interval", "Rectangle"} => eq(out, self)
        /\ (/\ self.cls = "Quadrilateral"
            /\ argsort_argsort(args.receiver.points) = argsort_argsort(self.points))
                => eq(out, self)
        /\ (self.cls = "Quadrilateral" /\ PaddedOutwards) => eq(out, self)

\* a Quadrilateral shrunk on its left (a negative padding) and restored
C3_QuadrilateralShrunkAndRestored ==
    /\ PaddedBack
    /\ self.cls = "Quadrilateral"
    /\ args.left > 0
    /\ args.receiver.points # self.points
    /\ eq(out, self)

-----------------------------------------------------------------------------
(* Rectangle -> Quadrilateral -> Rectangle *)

\* C4: for x1 <= x2 and y1 <= y2,
\* Rectangle(x1, y1, x2, y2).to_quadrilateral().to_rectangle().coordinates
\* is (x1, y1, x2, y2).
C4_RectangleThroughQuadrilateral ==
    (/\ op = "to_quadrilateral.to_rectangle"
     /\ self.cls = "Rectangle"
     /\ ValidRectangle(self))
        => /\ out.cls = "Rectangle"
           /\ Rectangle_coordinates(out) = <<self.x_1, self.y_1, self.x_2, self.y_2>>

\* a Rectangle of positive width and height converted and converted back
C4_RectangleConvertedAndBack ==
    /\ op = "to_quadrilateral.to_rectangle"
    /\ self.cls = "Rectangle"
    /\ self.x_1 < self.x_2
    /\ self.y_1 < self.y_2
    /\ args.receiver.cls = "Quadrilateral"
    /\ Rectangle_coordinates(out) = <<self.x_1, self.y_1, self.x_2, self.y_2>>

-----------------------------------------------------------------------------
(* is_in *)

IsInCalled == op = "is_in"

\* C5, as claimed: for Rectangles r and c with x1 <= x2 and y1 <= y2, coordinates
\* of any sign, no soft margin and center=False, r.is_in(c) is True exactly when
\* c.x1 <= r.x1, r.x2 <= c.x2, c.y1 <= r.y1 and r.y2 <= c.y2.
C5_RectangleIsInIffContained ==
    (/\ IsInCalled
     /\ self.cls = "Rectangle" /\ ValidRectangle(self)
     /\ other.cls = "Rectangle" /\ ValidRectangle(other)
     /\ args.soft_margin = NoMargin
     /\ ~args.center)
        => out = Bool(/\ other.x_1 <= self.x_1 /\ self.x_2 <= other.x_2
                      /\ other.y_1 <= self.y_1 /\ self.y_2 <= other.y_2)

\* the documented example: Rectangle(10,10,20,20) against Rectangle(0,0,5,5),
\* the four corners tested
ExampleOutside ==
    /\ IsInCalled
    /\ self = Rectangle(10, 10, 20, 20)
    /\ other = Rectangle(0, 0, 5, 5)
    /\ ~args.center

\* C6, as claimed: Rectangle(10,10,20,20).is_in(Rectangle(0,0,5,5),
\* soft_margin={'right': 50}) is True.
C6_RightMarginAdmits ==
    (ExampleOutside /\ args.soft_margin = Margin(0, 50, 0, 0)) => out = Bool(TRUE)

\* C6, as the code has it: with soft_margin={'right': 50} the result stays False,
\* the margin widening the X span of the container alone; with the right margin
\* 50 the result is True exactly when the bottom margin is at least 15.
C6_RightMarginAloneDoesNotAdmit ==
    (/\ ExampleOutside
     /\ args.soft_margin.right = 50
     /\ args.soft_margin.left = 0
     /\ args.soft_margin.top = 0)
        => out = Bool(args.soft_margin.bottom >= 15)

\* the example called with soft_margin={'right': 50}: False
C6_ExampleWithRightMargin ==
    /\ ExampleOutside
    /\ args.soft_margin = Margin(0, 50, 0, 0)
    /\ out = Bool(FALSE)

\* C7, as claimed: for Intervals a and b and no soft margin, a.is_in(b) is False
\* when the axes differ; on one axis it is True exactly when b.start <= a.start
\* and a.end <= b.end (center=False), and exactly when
\* b.start <= (a.start + a.end)/2 <= b.end (center=True).
C7_IntervalIsInIffContained ==
    (/\ IsInCalled
     /\ self.cls = "Interval"
     /\ other.cls = "Interval"
     /\ args.soft_margin = NoMargin)
        => out = Bool(/\ self.axis = other.axis
                      /\ IF args.center
                         THEN within(other.start, Interval_center(self), other.end)
                         ELSE other.start <= self.start /\ self.end <= other.end)

-----------------------------------------------------------------------------
(* Layout.filter_by *)

\* C8: L.filter_by(other, ...) is the subsequence of L of the members e with
\* e.is_in(other, ...) true, in L's order, none added and none dropped, and L is
\* left as it was (a member whose is_in raises makes filter_by raise).
C8_FilterByIsSubsequence ==
    [][op' = "filter_by" =>
        LET In(e) == is_in(e, other, args'.soft_margin, args'.center).ret
            Kept(e) == In(e).val
            Raises(e) == IsErr(In(e))
        IN  /\ layout' = layout
            /\ other' = other
            /\ IF \E k \in 1..Len(layout.elements) : Raises(layout.elements[k])
               THEN IsErr(out')
               ELSE out' = Layout(SelectSeq(layout.elements, Kept))]_vars

\* a Layout of two different members, the first dropped and the second kept
C8_SecondMemberKept ==
    /\ op = "filter_by"
    /\ Len(layout.elements) = 2
    /\ layout.elements[1] # layout.elements[2]
    /\ out = Layout(<<layout.elements[2]>>)

-----------------------------------------------------------------------------
(* Interval: start <= end *)

\* C9, as claimed: every Interval reached from a constructed Interval by pad,
\* shift, scale, set, put_on_canvas, condition_on and relative_to has
\* start <= end.
C9_IntervalStartBeforeEnd ==
    /\ self.cls = "Interval" => self.start <= self.end
    /\ out.cls = "Interval" => out.start <= out.end

-----------------------------------------------------------------------------
(* Mutation *)

GeometricOps ==
    {"pad", "shift", "scale", "put_on_canvas", "condition_on", "relative_to", "is_in",
     "to_rectangle", "to_quadrilateral", "to_interval", "set"}

\* C10: no geometric operation changes a field of the receiver or of `other`,
\* set with inplace=False included; set with inplace=True writes the receiver,
\* which is the object it returns.
C10_OnlySetInplaceMutates ==
    [][/\ (op' \in GeometricOps /\ ~(op' = "set" /\ args'.inplace))
            => (self' = self /\ other' = other)
       /\ (op' = "set" /\ args'.inplace)
            => (other' = other /\ (IsElement(out') => self' = out'))]_vars

\* an Interval padded: the call returned another Interval
C10_PadReturnedAnotherValue ==
    /\ op = "pad"
    /\ self.cls = "Interval"
    /\ args.left # 0
    /\ out.cls = "Interval"
    /\ out # self

-----------------------------------------------------------------------------
(* TextBlock *)

\* what the block's own method returns, `other` taken out of its TextBlock: the
\* method of the block's class, called on the block
BlockResult ==
    LET b == self.block
        o == IF other.cls = "TextBlock" THEN other.block ELSE other
    IN  CASE op' = "condition_on" ->
                (CASE b.cls = "Interval" -> Interval_condition_on(b, o)
                   [] b.cls = "Rectangle" -> Rectangle_condition_on(b, o)
                   [] b.cls = "Quadrilateral" -> Quadrilateral_condition_on(b, o)).ret
          [] op' = "relative_to" ->
                (CASE b.cls = "Interval" -> Interval_relative_to(b, o)
                   [] b.cls = "Rectangle" -> Rectangle_relative_to(b, o)
                   [] b.cls = "Quadrilateral" -> Quadrilateral_relative_to(b, o)).ret
          [] op' = "is_in" ->
                (CASE b.cls = "Interval" ->
                        Interval_is_in(b, o, args'.soft_margin, args'.center)
                   [] b.cls = "Rectangle" ->
                        Rectangle_is_in(b, o, args'.soft_margin, args'.center)
                   [] b.cls = "Quadrilateral" ->
                        Quadrilateral_is_in(b, o, args'.soft_margin, args'.center)).ret
          [] op' = "shift" -> shift(b, args'.shift_distance).ret
          [] op' = "scale" -> scale(b, args'.scale_factor).ret
          [] op' = "pad" -> pad(b, args'.left, args'.right, args'.top, args'.bottom,
                                args'.safe_mode).ret

\* C11: a call of condition_on, relative_to, shift, pad or scale on a TextBlock t
\* returns a TextBlock with t's text, id, type, parent, next and score whose block
\* is what the same call on t.block returns (a TextBlock `other` replaced by its
\* block), or raises what that call raises; is_in returns the block's boolean as
\* it is; t and `other` are as they were.
C11_TextBlockDelegatesToBlock ==
    [][(self.cls = "TextBlock" /\ op' # op) =>
            /\ self' = self
            /\ other' = other
            /\ IF op' = "is_in" \/ IsErr(BlockResult)
               THEN out' = BlockResult
               ELSE /\ out'.cls = "TextBlock"
                    /\ out'.block = BlockResult
                    /\ out'.text = self.text /\ out'.id = self.id
                    /\ out'.type = self.type /\ out'.parent = self.parent
                    /\ out'.next = self.next /\ out'.score = self.score]_vars

\* a TextBlock with every content field given, moved into the frame of a
\* TextBlock: another block, the same content
C11_TextBlockMovedIntoTextBlock ==
    /\ op = "condition_on"
    /\ self.cls = "TextBlock" /\ self.text = "text"
    /\ other.cls = "TextBlock"
    /\ out.cls = "TextBlock" /\ out.text = "text" /\ out.score = Some(5)
    /\ out.block # self.block


-----------------------------------------------------------------------------
(* An `other` of no supported class *)

\* C12: condition_on, relative_to and is_in of an Interval, a Rectangle or a
\* Quadrilateral, given an `other` that is neither one of the three nor a
\* TextBlock, raise: no element and no boolean is returned, and the receiver and
\* `other` are as they were.
C12_UnsupportedOtherRaises ==
    [][(/\ op' \in {"condition_on", "relative_to", "is_in"}
        /\ op = "init"
        /\ IsElement(self)
        /\ ~IsElement(other) /\ other.cls # "TextBlock")
            => (IsErr(out') /\ self' = self /\ other' = other)]_vars

\* is_in given a Layout, whose pad succeeds: the exception of the type ladder
C12_IsInLayoutRaised ==
    /\ op = "is_in"
    /\ self.cls = "Quadrilateral"
    /\ other = Layout(<<Rectangle(0, 0, 1, 1)>>)
    /\ out = Err("Exception")


-----------------------------------------------------------------------------
(* Layout: the broadcast methods *)

BroadcastCalled ==
    op' \in {"relative_to", "condition_on", "is_in", "pad", "scale", "shift"} /\ op = "init"

\* what the same call on the member ele returns
MemberResult(ele) ==
    CASE op' = "relative_to" -> ele_relative_to(ele, other).ret
      [] op' = "condition_on" -> ele_condition_on(ele, other).ret
      [] op' = "is_in" -> ele_is_in(ele, other, args'.soft_margin, args'.center).ret
      [] op' = "pad" -> ele_pad(ele, args'.left, args'.right, args'.top, args'.bottom,
                                args'.safe_mode).ret
      [] op' = "scale" -> ele_scale(ele, args'.scale_factor).ret
      [] op' = "shift" -> ele_shift(ele, args'.shift_distance).ret

\* the members whose call raises
Raising == {i \in 1..Len(layout.elements) : IsErr(MemberResult(layout.elements[i]))}

\* C13: L.op(args), op one of relative_to, condition_on, is_in, pad, scale and
\* shift, is a Layout as long as L whose member i is what L[i].op(args) returns,
\* for every i; when a member's call raises, the call on L raises what the first
\* such member raises; L, its members and `other` are as they were.
C13_BroadcastIsMemberwise ==
    [][BroadcastCalled =>
            /\ layout' = layout
            /\ other' = other
            /\ IF Raising # {}
               THEN \E i \in Raising :
                        /\ \A j \in Raising : i <= j
                        /\ out' = MemberResult(layout.elements[i])
               ELSE /\ out'.cls = "Layout"
                    /\ Len(out'.elements) = Len(layout.elements)
                    /\ \A i \in 1..Len(layout.elements) :
                            out'.elements[i] = MemberResult(layout.elements[i])]_vars

\* two different members, a Rectangle and a TextBlock, scaled: two different
\* results in the members' order
C13_TwoMembersScaled ==
    /\ op = "scale"
    /\ Len(layout.elements) = 2
    /\ layout.elements[1].cls = "Rectangle"
    /\ layout.elements[2].cls = "TextBlock"
    /\ out.cls = "Layout"
    /\ Len(out.elements) = 2
    /\ out.elements[1].cls = "Rectangle"
    /\ out.elements[2].cls = "TextBlock"
    /\ out.elements[2].block # layout.elements[2].block


-----------------------------------------------------------------------------
(* area *)

\* C14: for a Rectangle r with x_1 <= x_2 and y_1 <= y_2, the area of
\* Quadrilateral(r.points) is r.area, which is (x_2 - x_1) * (y_2 - y_1); for
\* Rectangle(0, 0, 100, 50) it is 5000.
C14_ShoelaceIsRectangleArea ==
    (/\ op = "Quadrilateral.area"
     /\ self.cls = "Rectangle"
     /\ ValidRectangle(self))
        => /\ out = area(self)
           /\ out = Halves(2 * (self.x_2 - self.x_1) * (self.y_2 - self.y_1))
           /\ self = Rectangle(0, 0, 100, 50) => out = Halves(2 * 5000)

\* the documented example: the Quadrilateral on the points of
\* Rectangle(0, 0, 100, 50) has area 5000
C14_ExampleArea ==
    /\ op = "Quadrilateral.area"
    /\ self = Rectangle(0, 0, 100, 50)
    /\ args.receiver.cls = "Quadrilateral"
    /\ out = Halves(10000)


-----------------------------------------------------------------------------
(* Interval.from_series *)

\* C15, as claimed: from a row with x_1 and x_2 given (x_1 <= x_2, 0 included)
\* and y_1 and y_2 missing, Interval.from_series makes the Interval on the x axis
\* with start = x_1 and end = x_2; from a row with only y_1 and y_2 given
\* (y_1 <= y_2), the Interval on the y axis with start = y_1 and end = y_2.
C15_FromSeriesReadsThePopulatedPair ==
    /\ (/\ op = "from_series"
        /\ other.x_1 # None /\ other.x_2 # None
        /\ other.y_1 = None /\ other.y_2 = None
        /\ other.x_1[1] <= other.x_2[1])
            => /\ out.cls = "Interval"
               /\ out.axis = "x"
               /\ out.start = other.x_1[1] /\ out.end = other.x_2[1]
    /\ (/\ op = "from_series"
        /\ other.y_1 # None /\ other.y_2 # None
        /\ other.x_1 = None /\ other.x_2 = None
        /\ other.y_1[1] <= other.y_2[1])
            => /\ out.cls = "Interval"
               /\ out.axis = "y"
               /\ out.start = other.y_1[1] /\ out.end = other.y_2[1]


-----------------------------------------------------------------------------
(* Interval against Interval, Interval against Rectangle *)

FrameCalled == op \in {"condition_on", "relative_to"}

\* +1 for condition_on, -1 for relative_to
Direction == IF op = "condition_on" THEN 1 ELSE 0 - 1

\* C16: for Intervals a and b on one axis, a.condition_on(b) is the Interval on
\* that axis with start = a.start + b.start and end = a.end + b.start, and
\* a.relative_to(b) the one with start = a.start - b.start and
\* end = a.end - b.start; on different axes both return an Interval equal to a in
\* start, end, axis, canvas_height and canvas_width.
C16_IntervalAgainstInterval ==
    (/\ FrameCalled
     /\ self.cls = "Interval"
     /\ other.cls = "Interval")
        => /\ out.cls = "Interval"
           /\ IF self.axis = other.axis
              THEN /\ out.start = self.start + Direction * other.start
                   /\ out.end = self.end + Direction * other.start
                   /\ out.axis = self.axis
              ELSE /\ out.start = self.start /\ out.end = self.end
                   /\ out.axis = self.axis
                   /\ out.canvas_height = self.canvas_height
                   /\ out.canvas_width = self.canvas_width

\* an Interval taken relative to an Interval on its axis that starts away from 0
C16_IntervalMovedBack ==
    /\ op = "relative_to"
    /\ self.cls = "Interval" /\ other.cls = "Interval"
    /\ self.axis = other.axis
    /\ other.start # 0
    /\ out.cls = "Interval"
    /\ out.start = self.start - other.start
    /\ out.start # self.start


\* C17: for an Interval a and a Rectangle R, a.condition_on(R) is the Rectangle
\* (a.start + R.x_1, R.y_1, a.end + R.x_1, R.y_1 + R.height) when a is on the x
\* axis and (R.x_1, a.start + R.y_1, R.x_1 + R.width, a.end + R.y_1) when a is on
\* the y axis; a.relative_to(R) is the same with R.x_1 and R.y_1 subtracted.  The
\* canvas size a had does not enter: R's height and width take its place.
C17_IntervalAgainstRectangle ==
    (/\ FrameCalled
     /\ self.cls = "Interval"
     /\ other.cls = "Rectangle")
        => LET dx == Direction * other.x_1
               dy == Direction * other.y_1
               h == other.y_2 - other.y_1
               w == other.x_2 - other.x_1
           IN  out = IF self.axis = "x"
                     THEN Rectangle(self.start + dx, dy, self.end + dx, dy + h)
                     ELSE Rectangle(dx, self.start + dy, dx + w, self.end + dy)

\* an Interval on the x axis whose canvas is 1 high, conditioned on a Rectangle
\* 2 high: the Rectangle returned is 2 high
C17_CanvasReplaced ==
    /\ op = "condition_on"
    /\ self.cls = "Interval" /\ self.axis = "x" /\ self.canvas_height = 1
    /\ other.cls = "Rectangle" /\ other.y_2 - other.y_1 = 2
    /\ out.cls = "Rectangle"
    /\ out.y_2 - out.y_1 = 2


-----------------------------------------------------------------------------
(* Interval.pad *)

-----------------------------------------------------------------------------
(* Quadrilateral.mapped_rectangle_points *)

\* the four corners turn the same way, clockwise on an image (y grows downwards),
\* and the first one is the top left corner: the leftmost of the topmost
ClockwiseFromTopLeft(pts) ==
    LET edge(i) == <<pts[(i % 4) + 1][1] - pts[i][1], pts[(i % 4) + 1][2] - pts[i][2]>>
        turn(i) == edge(i)[1] * edge((i % 4) + 1)[2] - edge(i)[2] * edge((i % 4) + 1)[1]
    IN  /\ \A i \in 1..4 : turn(i) > 0
        /\ \A j \in 1..4 : pts[1][2] <= pts[j][2]
        /\ \A j \in 1..4 : pts[j][2] = pts[1][2] => pts[1][1] <= pts[j][1]

\* C19, as claimed: for a Quadrilateral whose points are in clockwise order from
\* the top left corner, skewed parallelograms included, mapped_rectangle_points
\* is (0,0), (width,0), (width,height), (0,height) in the order of the points.
C19_MappedInPointOrder ==
    (/\ op = "mapped_rectangle_points"
     /\ ClockwiseFromTopLeft(self.points))
        => LET w == Quadrilateral_width(self)
               h == Quadrilateral_height(self)
           IN  out = Ndarray(<< <<0, 0>>, <<w, 0>>, <<w, h>>, <<0, h>> >>)


-----------------------------------------------------------------------------
(* Quadrilateral.pad against Rectangle.pad *)

PaddedAsQuadrilateral ==
    /\ op = "to_quadrilateral.pad"
    /\ self.cls = "Rectangle"
    /\ ValidRectangle(self)

\* the coordinates of self.pad(..) with the paddings of the call made
PaddedRectangleCoordinates ==
    Rectangle_coordinates(Rectangle_pad(self, args.left, args.right, args.top, args.bottom,
                                        args.safe_mode).ret)

\* C20, as claimed: for every Rectangle r with x_1 <= x_2 and y_1 <= y_2, all
\* paddings and either safe_mode, the coordinates of r.to_quadrilateral().pad(..)
\* are the coordinates of r.pad(..).
C20_QuadrilateralPadIsRectanglePad ==
    PaddedAsQuadrilateral => Quadrilateral_coordinates(out) = PaddedRectangleCoordinates

\* the padded Rectangle still has x_1 <= x_2 and y_1 <= y_2 and, in safe mode,
\* its x_2 and y_2 are not below 0
PadKeepsCorners ==
    /\ self.x_1 - args.left <= self.x_2 + args.right
    /\ self.y_1 - args.top <= self.y_2 + args.bottom
    /\ args.safe_mode => (self.x_2 + args.right >= 0 /\ self.y_2 + args.bottom >= 0)

\* C20: the coordinates of r.to_quadrilateral().pad(..) are those of r.pad(..)
\* exactly when the padded Rectangle keeps x_1 <= x_2 and y_1 <= y_2 and, in
\* safe mode, has x_2 >= 0 and y_2 >= 0.
C20_QuadrilateralPadWhereCornersKept ==
    PaddedAsQuadrilateral
        => (Quadrilateral_coordinates(out) = PaddedRectangleCoordinates <=> PadKeepsCorners)

\* a Rectangle widened on the left and lowered at the bottom, as a Quadrilateral:
\* the coordinates of the padded Rectangle
C20_PaddedOutwardsAlike ==
    /\ PaddedAsQuadrilateral
    /\ self.x_1 < self.x_2 /\ self.y_1 < self.y_2
    /\ args.left = 1 /\ args.bottom = 1 /\ args.right = 0 /\ args.top = 0
    /\ ~args.safe_mode
    /\ Quadrilateral_coordinates(out) = <<self.x_1 - 1, self.y_1, self.x_2, self.y_2 + 1>>
    /\ Quadrilateral_coordinates(out) = PaddedRectangleCoordinates


-----------------------------------------------------------------------------
(* is_in under a soft margin *)

\* no entry of the soft margin is below 0
Widening(soft_margin) ==
    /\ soft_margin.left >= 0 /\ soft_margin.right >= 0
    /\ soft_margin.top >= 0 /\ soft_margin.bottom >= 0

\* self.is_in(other) with the soft margin left out and the center mode of the call
WithoutMargin == is_in(self, other, NoMargin, args.center).ret

\* C21, as claimed: for every geometry value g, every container (Interval,
\* Rectangle or clockwise Quadrilateral), either center mode and every soft margin
\* with no entry below 0, g.is_in(other) True implies g.is_in(other, soft_margin)
\* True.
C21_SoftMarginRelaxes ==
    (/\ IsInCalled
     /\ Widening(args.soft_margin)
     /\ WithoutMargin = Bool(TRUE))
        => out = Bool(TRUE)


\* self.is_in(q) for the Rectangle other turned into the Quadrilateral q, with the
\* soft margin and the center mode of the call
IntoQuadrilateral ==
    is_in(self, Rectangle_to_quadrilateral(other), args.soft_margin, args.center).ret

\* C22, as claimed: for all Rectangles r and c with x1 <= x2 and y1 <= y2 (c of
\* zero width or zero height too), no soft margin and either center mode,
\* r.is_in(c) == r.is_in(c.to_quadrilateral()).
C22_ContainerRepresentation ==
    (/\ IsInCalled
     /\ self.cls = "Rectangle" /\ ValidRectangle(self)
     /\ other.cls = "Rectangle" /\ ValidRectangle(other)
     /\ args.soft_margin = NoMargin)
        => out = IntoQuadrilateral


\* self.is_in(other, soft_margin, center=True) with the soft margin of the call
OfCenter == is_in(self, other, args.soft_margin, TRUE).ret

\* C23: for every geometry value g (Interval, Rectangle with x1 <= x2 and
\* y1 <= y2, or Quadrilateral), every container of the three kinds and every soft
\* margin, g.is_in(other, soft_margin, center=False) True implies
\* g.is_in(other, soft_margin, center=True) True.
C23_FullImpliesCenter ==
    (/\ IsInCalled
     /\ ~args.center
     /\ out = Bool(TRUE))
        => OfCenter = Bool(TRUE)


\* the triangle (0,0), (1,0), (0,1) wholly inside the unit square padded to the
\* right, its center (1/4, 1/2) inside as well
C23_TriangleWhollyInside ==
    /\ IsInCalled
    /\ ~args.center
    /\ self = QuadOf(0, 0, 1, 1, 0, 0 - 1)
    /\ other = QuadOf(0, 0, 1, 1, 0, 0)
    /\ args.soft_margin = Margin(0, 1, 0, 0)
    /\ Quadrilateral_center(self) = <<1, 2, 4>>
    /\ out = Bool(TRUE)
    /\ OfCenter = Bool(TRUE)


\* C24, as claimed: for every receiver of the three kinds and every container
\* that is an Interval with start <= end, a Rectangle with x1 <= x2 and y1 <= y2,
\* or a Quadrilateral, coordinates of any sign, g.is_in(container) with the empty
\* soft margin returns a boolean and never ends in an error.
C24_IsInIsTotal ==
    (/\ IsInCalled
     /\ args.soft_margin = NoMargin
     /\ \/ other.cls = "Interval" /\ other.start <= other.end
        \/ other.cls = "Rectangle" /\ ValidRectangle(other)
        \/ other.cls = "Quadrilateral")
        => out \in {Bool(TRUE), Bool(FALSE)}

=============================================================================
